---- MODULE Spec2Model ----
(***************************************************************************)
(* Model of the College Admissions Matcher (src/th2_Marek_Sipek.py): the   *)
(* deferred-acceptance engine gale_shapley_matching, the steppable         *)
(* animation session built on the same loop, and the score-sensitivity     *)
(* analysis that reruns the engine on adjusted scores.                     *)
(***************************************************************************)
EXTENDS Integers, Sequences, FiniteSets, TLC

(***************************************************************************)
(* Bounds of the explored inputs.                                          *)
(***************************************************************************)
NumStudents == 3
MaxPrefLen == 2
MaxScore == 2
MaxCapacity == 2

StudentNames == <<"a", "b", "c", "d">>
KnownSchools == {"X", "Y"}
\* "G" is a school id that no School record carries (an unknown slot).
SchoolIds == KnownSchools \cup {"G"}

VARIABLES
    students,       \* self.students: list of Student(name, preferences, score)
    schools,        \* self.schools: dict name -> School(capacity, accepted)
    pc,             \* where the main thread is: "idle", "loop", "raised"
    caller,         \* who called gale_shapley_matching
    run,            \* the locals of the running gale_shapley_matching call
    pops,           \* number of unmatched.pop(0) executed by that call
    matches,        \* what the last completed call returned to run_matching
    input,          \* the data as entered, before any operation (history variable)
    state,          \* animation_state, the dict shared by the animation callbacks
    anim_open,      \* the animation window exists
    ticks,          \* pending canvas.after callbacks of _animation_run_step
    anim_error,     \* exception raised by the last animation callback, or "none"
    anim_pops,      \* number of unmatched.pop(0) since the last reset
    last_press,     \* what the last button handler did: "reset" (also on
                    \* opening, line 1038), "resume", "pause" or "step"
    analysis_open,  \* the sensitivity window exists
    original_matches,   \* the baseline held by the sensitivity window
    adjust,         \* locals of the running _run_adjusted_matching call
    adjusted_matches,   \* what the last _run_adjusted_matching call returned
    changes,        \* _count_matching_changes(original_matches, adjusted_matches)
    shown,          \* what _display_matching_changes wrote to the changes widget
    sweep,          \* update_charts: one row per factor evaluated so far
    par,            \* locals of two threads running _run_adjusted_matching
    net             \* the StrategicNetwork window of src/th1_Marek_Sipek.py

dataVars == <<students, schools, input>>
engineVars == <<pc, caller, run, pops, matches>>
animVars == <<state, anim_open, ticks, anim_error, anim_pops, last_press>>
sensVars == <<analysis_open, original_matches, adjust, adjusted_matches, changes,
              shown, sweep>>
parVars == <<par>>
netVars == <<net>>
vars == <<dataVars, engineVars, animVars, sensVars, parVars, netVars>>

(***************************************************************************)
(* Python list and dict helpers.                                           *)
(***************************************************************************)
\* sorted(accepted, key=lambda x: x[1]): stable, ascending by score.
RankAsc(acc, i) ==
    Cardinality({j \in DOMAIN acc :
        acc[j][2] < acc[i][2] \/ (acc[j][2] = acc[i][2] /\ j < i)}) + 1

sorted_by_score(acc) ==
    [k \in DOMAIN acc |-> acc[CHOOSE i \in DOMAIN acc : RankAsc(acc, i) = k]]

\* sorted(accepted, key=lambda x: x[1], reverse=True): descending by score,
\* elements of equal score keep their order in the list.
RankDesc(acc, i) ==
    Cardinality({j \in DOMAIN acc :
        acc[j][2] > acc[i][2] \/ (acc[j][2] = acc[i][2] /\ j < i)}) + 1

sorted_by_score_reverse(acc) ==
    [k \in DOMAIN acc |-> acc[CHOOSE i \in DOMAIN acc : RankDesc(acc, i) = k]]

\* list.remove(x): drops the first element equal to x.
list_remove(acc, x) ==
    LET i == CHOOSE k \in DOMAIN acc :
                 acc[k] = x /\ \A j \in 1..(k - 1) : acc[j] # x
    IN  SubSeq(acc, 1, i - 1) \o SubSeq(acc, i + 1, Len(acc))

\* list.pop(0) leaves the tail.
Tail0(q) == SubSeq(q, 2, Len(q))

NamesOf(studs) == {studs[i].name : i \in DOMAIN studs}

\* A dict comprehension keyed by student.name keeps the last entry of a name.
LastOf(studs, n) ==
    studs[CHOOSE i \in DOMAIN studs :
              studs[i].name = n /\ \A j \in DOMAIN studs : studs[j].name = n => j <= i]

(***************************************************************************)
(* gale_shapley_matching, lines 381-436.                                   *)
(***************************************************************************)
\* Lines 383-393: the locals built from self.students and self.schools.
gale_shapley_init(studs, schs) ==
    [ student_dict |-> [n \in NamesOf(studs) |->
                           [prefs |-> LastOf(studs, n).prefs,
                            score |-> LastOf(studs, n).score]],
      schools_dict |-> [s \in DOMAIN schs |->
                           [capacity |-> schs[s].capacity, accepted |-> <<>>]],
      unmatched    |-> [i \in DOMAIN studs |-> studs[i].name],
      pref_index   |-> [n \in NamesOf(studs) |-> 0],
      error        |-> "none" ]

\* apply_to_school admitting while len(accepted) <= capacity.
apply_to_school_overfill(r, student, school, student_score) ==
    LET school_data == r.schools_dict[school]
        accepted    == school_data.accepted
    IN  IF Len(accepted) <= school_data.capacity
        THEN [r EXCEPT !.schools_dict[school].accepted =
                           Append(accepted, <<student, student_score>>)]
        ELSE IF accepted = <<>>
        THEN [r EXCEPT !.error = "IndexError"]      \* current[0] of an empty list
        ELSE LET current == sorted_by_score(accepted)
             IN  IF student_score > current[1][2]
                 THEN LET rejected == current[1][1]
                      IN  [r EXCEPT
                              !.schools_dict[school].accepted =
                                  Append(list_remove(accepted, current[1]),
                                         <<student, student_score>>),
                              !.unmatched = Append(r.unmatched, rejected)]
                 ELSE [r EXCEPT !.unmatched = Append(r.unmatched, student)]

\* apply_to_school with the comparison reversed: a lower score replaces.
apply_to_school_reversed(r, student, school, student_score) ==
    LET school_data == r.schools_dict[school]
        accepted    == school_data.accepted
    IN  IF Len(accepted) < school_data.capacity
        THEN [r EXCEPT !.schools_dict[school].accepted =
                           Append(accepted, <<student, student_score>>)]
        ELSE IF accepted = <<>>
        THEN [r EXCEPT !.error = "IndexError"]      \* current[0] of an empty list
        ELSE LET current == sorted_by_score(accepted)
             IN  IF student_score < current[1][2]
                 THEN LET rejected == current[1][1]
                      IN  [r EXCEPT
                              !.schools_dict[school].accepted =
                                  Append(list_remove(accepted, current[1]),
                                         <<student, student_score>>),
                              !.unmatched = Append(r.unmatched, rejected)]
                 ELSE [r EXCEPT !.unmatched = Append(r.unmatched, student)]

\* apply_to_school without accepted.remove(current[0]).
apply_to_school_keep(r, student, school, student_score) ==
    LET school_data == r.schools_dict[school]
        accepted    == school_data.accepted
    IN  IF Len(accepted) < school_data.capacity
        THEN [r EXCEPT !.schools_dict[school].accepted =
                           Append(accepted, <<student, student_score>>)]
        ELSE IF accepted = <<>>
        THEN [r EXCEPT !.error = "IndexError"]      \* current[0] of an empty list
        ELSE LET current == sorted_by_score(accepted)
             IN  IF student_score > current[1][2]
                 THEN LET rejected == current[1][1]
                      IN  [r EXCEPT
                              !.schools_dict[school].accepted =
                                  Append(accepted,
                                         <<student, student_score>>),
                              !.unmatched = Append(r.unmatched, rejected)]
                 ELSE [r EXCEPT !.unmatched = Append(r.unmatched, student)]

\* apply_to_school that admits to a free seat only a student who scores
\* above the lowest admitted score.
apply_to_school_picky(r, student, school, student_score) ==
    LET school_data == r.schools_dict[school]
        accepted    == school_data.accepted
    IN  IF /\ Len(accepted) < school_data.capacity
           /\ (accepted = <<>> \/ student_score > sorted_by_score(accepted)[1][2])
        THEN [r EXCEPT !.schools_dict[school].accepted =
                           Append(accepted, <<student, student_score>>)]
        ELSE IF accepted = <<>>
        THEN [r EXCEPT !.error = "IndexError"]      \* current[0] of an empty list
        ELSE LET current == sorted_by_score(accepted)
             IN  IF student_score > current[1][2]
                 THEN LET rejected == current[1][1]
                      IN  [r EXCEPT
                              !.schools_dict[school].accepted =
                                  Append(list_remove(accepted, current[1]),
                                         <<student, student_score>>),
                              !.unmatched = Append(r.unmatched, rejected)]
                 ELSE [r EXCEPT !.unmatched = Append(r.unmatched, student)]

\* apply_to_school in which an equal score replaces as well.
apply_to_school_tie(r, student, school, student_score) ==
    LET school_data == r.schools_dict[school]
        accepted    == school_data.accepted
    IN  IF Len(accepted) < school_data.capacity
        THEN [r EXCEPT !.schools_dict[school].accepted =
                           Append(accepted, <<student, student_score>>)]
        ELSE IF accepted = <<>>
        THEN [r EXCEPT !.error = "IndexError"]      \* current[0] of an empty list
        ELSE LET current == sorted_by_score(accepted)
             IN  IF student_score >= current[1][2]
                 THEN LET rejected == current[1][1]
                      IN  [r EXCEPT
                              !.schools_dict[school].accepted =
                                  Append(list_remove(accepted, current[1]),
                                         <<student, student_score>>),
                              !.unmatched = Append(r.unmatched, rejected)]
                 ELSE [r EXCEPT !.unmatched = Append(r.unmatched, student)]

\* sorted_by_score that is not stable: of equal scores the later comes first.
sorted_by_score_latest(acc) ==
    [k \in DOMAIN acc |->
        acc[CHOOSE i \in DOMAIN acc :
                Cardinality({j \in DOMAIN acc :
                    acc[j][2] < acc[i][2] \/ (acc[j][2] = acc[i][2] /\ j > i)}) + 1 = k]]

\* apply_to_school that replaces the latest admitted of the lowest scorers.
apply_to_school_latest(r, student, school, student_score) ==
    LET school_data == r.schools_dict[school]
        accepted    == school_data.accepted
    IN  IF Len(accepted) < school_data.capacity
        THEN [r EXCEPT !.schools_dict[school].accepted =
                           Append(accepted, <<student, student_score>>)]
        ELSE IF accepted = <<>>
        THEN [r EXCEPT !.error = "IndexError"]      \* current[0] of an empty list
        ELSE LET current == sorted_by_score_latest(accepted)
             IN  IF student_score > current[1][2]
                 THEN LET rejected == current[1][1]
                      IN  [r EXCEPT
                              !.schools_dict[school].accepted =
                                  Append(list_remove(accepted, current[1]),
                                         <<student, student_score>>),
                              !.unmatched = Append(r.unmatched, rejected)]
                 ELSE [r EXCEPT !.unmatched = Append(r.unmatched, student)]

\* apply_to_school that replaces only on a score more than 1 above the lowest.
apply_to_school_margin(r, student, school, student_score) ==
    LET school_data == r.schools_dict[school]
        accepted    == school_data.accepted
    IN  IF Len(accepted) < school_data.capacity
        THEN [r EXCEPT !.schools_dict[school].accepted =
                           Append(accepted, <<student, student_score>>)]
        ELSE IF accepted = <<>>
        THEN [r EXCEPT !.error = "IndexError"]
        ELSE LET current == sorted_by_score(accepted)
             IN  IF student_score > current[1][2] + 1
                 THEN LET rejected == current[1][1]
                      IN  [r EXCEPT
                              !.schools_dict[school].accepted =
                                  Append(list_remove(accepted, current[1]),
                                         <<student, student_score>>),
                              !.unmatched = Append(r.unmatched, rejected)]
                 ELSE [r EXCEPT !.unmatched = Append(r.unmatched, student)]

\* apply_to_school that moves the cursor of a student admitted to a free
\* seat one place further.
apply_to_school_skip(r, student, school, student_score) ==
    LET school_data == r.schools_dict[school]
        accepted    == school_data.accepted
    IN  IF Len(accepted) < school_data.capacity
        THEN [r EXCEPT !.schools_dict[school].accepted =
                           Append(accepted, <<student, student_score>>),
                       !.pref_index[student] = @ + 1]
        ELSE IF accepted = <<>>
        THEN [r EXCEPT !.error = "IndexError"]
        ELSE LET current == sorted_by_score(accepted)
             IN  IF student_score > current[1][2]
                 THEN LET rejected == current[1][1]
                      IN  [r EXCEPT
                              !.schools_dict[school].accepted =
                                  Append(list_remove(accepted, current[1]),
                                         <<student, student_score>>),
                              !.unmatched = Append(r.unmatched, rejected)]
                 ELSE [r EXCEPT !.unmatched = Append(r.unmatched, student)]

\* Lines 416-430: the application of student (with student_score) to school.
apply_to_school(r, student, school, student_score) ==
    LET school_data == r.schools_dict[school]
        accepted    == school_data.accepted
    IN  IF Len(accepted) < school_data.capacity
        THEN [r EXCEPT !.schools_dict[school].accepted =
                           Append(accepted, <<student, student_score>>)]
        ELSE IF accepted = <<>>
        THEN [r EXCEPT !.error = "IndexError"]      \* current[0] of an empty list
        ELSE LET current == sorted_by_score(accepted)
             IN  IF student_score > current[1][2]
                 THEN LET rejected == current[1][1]
                      IN  [r EXCEPT
                              !.schools_dict[school].accepted =
                                  Append(list_remove(accepted, current[1]),
                                         <<student, student_score>>),
                              !.unmatched = Append(r.unmatched, rejected)]
                 ELSE [r EXCEPT !.unmatched = Append(r.unmatched, student)]

\* loop_body that advances the cursor only when the school exists.
loop_body_stuck(r) ==
    LET student == Head(r.unmatched)
        r1      == [r EXCEPT !.unmatched = Tail0(r.unmatched)]
        student_prefs == r.student_dict[student].prefs
    IN  IF r.pref_index[student] >= Len(student_prefs)
        THEN r1
        ELSE
        LET school == student_prefs[r.pref_index[student] + 1]
        IN  IF school \notin DOMAIN r.schools_dict
            THEN [r1 EXCEPT !.unmatched = Append(r1.unmatched, student)]
            ELSE apply_to_school([r1 EXCEPT !.pref_index[student] = @ + 1],
                                 student, school, r.student_dict[student].score)

\* loop_body without the check that the school exists: schools_dict[school]
\* raises KeyError for an unknown school.
loop_body_unchecked(r) ==
    LET student == Head(r.unmatched)
        r1      == [r EXCEPT !.unmatched = Tail0(r.unmatched)]
        student_prefs == r.student_dict[student].prefs
    IN  IF r.pref_index[student] >= Len(student_prefs)
        THEN r1
        ELSE
        LET school == student_prefs[r.pref_index[student] + 1]
            r2     == [r1 EXCEPT !.pref_index[student] = @ + 1]
        IN  IF school \notin DOMAIN r.schools_dict
            THEN [r2 EXCEPT !.error = "KeyError"]
            ELSE apply_to_school(r2, student, school,
                                 r.student_dict[student].score)

\* loop_body that does not put a student back in the queue when the school
\* does not exist.
loop_body_drop(r) ==
    LET student == Head(r.unmatched)
        r1      == [r EXCEPT !.unmatched = Tail0(r.unmatched)]
    IN  IF student \notin DOMAIN r.student_dict
        THEN [r1 EXCEPT !.error = "KeyError"]
        ELSE
        LET student_prefs == r.student_dict[student].prefs
        IN  IF r.pref_index[student] >= Len(student_prefs)
            THEN r1
            ELSE
            LET school == student_prefs[r.pref_index[student] + 1]
                r2     == [r1 EXCEPT !.pref_index[student] = @ + 1]
            IN  IF school \notin DOMAIN r.schools_dict
                THEN r2
                ELSE apply_to_school(r2, student, school,
                                     r.student_dict[student].score)

\* loop_body that puts a student with no preference left back in the queue.
loop_body_requeue(r) ==
    LET student == Head(r.unmatched)
        r1      == [r EXCEPT !.unmatched = Tail0(r.unmatched)]
    IN  IF student \notin DOMAIN r.student_dict
        THEN [r1 EXCEPT !.error = "KeyError"]
        ELSE
        LET student_prefs == r.student_dict[student].prefs
        IN  IF r.pref_index[student] >= Len(student_prefs)
            THEN [r1 EXCEPT !.unmatched = Append(r1.unmatched, student)]
            ELSE
            LET school == student_prefs[r.pref_index[student] + 1]
                r2     == [r1 EXCEPT !.pref_index[student] = @ + 1]
            IN  IF school \notin DOMAIN r.schools_dict
                THEN [r2 EXCEPT !.unmatched = Append(r1.unmatched, student)]
                ELSE apply_to_school(r2, student, school,
                                     r.student_dict[student].score)

\* Lines 397-430: one iteration of the while loop, r.unmatched non-empty.
loop_body(r) ==
    LET student == Head(r.unmatched)
        r1      == [r EXCEPT !.unmatched = Tail0(r.unmatched)]
    IN  IF student \notin DOMAIN r.student_dict
        THEN [r1 EXCEPT !.error = "KeyError"]
        ELSE
        LET student_prefs == r.student_dict[student].prefs
        IN  IF r.pref_index[student] >= Len(student_prefs)
            THEN r1
            ELSE
            LET school == student_prefs[r.pref_index[student] + 1]
                r2     == [r1 EXCEPT !.pref_index[student] = @ + 1]
            IN  IF school \notin DOMAIN r.schools_dict
                THEN [r2 EXCEPT !.unmatched = Append(r1.unmatched, student)]
                ELSE apply_to_school(r2, student, school,
                                     r.student_dict[student].score)

\* format_results that reverses the ascending sort instead of sorting with
\* reverse=True: students of equal score come out in reverse order.
format_results_reversed(schools_dict) ==
    [s \in DOMAIN schools_dict |->
        LET srt == sorted_by_score(schools_dict[s].accepted)
        IN  [k \in DOMAIN srt |-> srt[Len(srt) + 1 - k][1]]]

\* Lines 432-436: the returned dict, school -> names by descending score.
format_results(schools_dict) ==
    [s \in DOMAIN schools_dict |->
        LET srt == sorted_by_score_reverse(schools_dict[s].accepted)
        IN  [k \in DOMAIN srt |-> srt[k][1]]]

\* The engine's locals after at most k iterations from r.
RECURSIVE engine_after(_, _)
engine_after(r, k) ==
    IF k = 0 \/ r.unmatched = <<>> \/ r.error # "none"
    THEN r
    ELSE engine_after(loop_body(r), k - 1)

\* The engine's locals when its loop ends.
RECURSIVE engine_final(_)
engine_final(r) ==
    IF r.unmatched = <<>> \/ r.error # "none"
    THEN r
    ELSE engine_final(loop_body(r))

\* What gale_shapley_matching returns on the given data.
gale_shapley_matching(studs, schs) ==
    format_results(engine_final(gale_shapley_init(studs, schs)).schools_dict)

(***************************************************************************)
(* The animation session, lines 1003-1177.                                 *)
(***************************************************************************)
\* animation_state as animate_matching creates it (lines 1003-1014).
animation_state0 ==
    [ running         |-> FALSE,
      step            |-> 0,
      student_dict    |-> [n \in {} |-> 0],
      schools_dict    |-> [s \in {} |-> 0],
      unmatched       |-> <<>>,
      pref_index      |-> [n \in {} |-> 0],
      history         |-> <<>>,
      current_student |-> "None",
      current_school  |-> "None" ]

\* _animation_reset, lines 1046-1064.
animation_reset_state(studs, schs) ==
    [ running         |-> FALSE,
      step            |-> 0,
      student_dict    |-> [n \in NamesOf(studs) |->
                              [prefs |-> LastOf(studs, n).prefs,
                               score |-> LastOf(studs, n).score]],
      schools_dict    |-> [s \in DOMAIN schs |->
                              [capacity |-> schs[s].capacity, accepted |-> <<>>]],
      unmatched       |-> [i \in DOMAIN studs |-> studs[i].name],
      pref_index      |-> [n \in NamesOf(studs) |-> 0],
      history         |-> <<>>,
      current_student |-> "None",
      current_school  |-> "None" ]

\* The four step outcomes below are [state, after, error, popped]: the dict
\* after the callback, the number of canvas.after calls it made, the
\* exception it raised and the number of pops it made.
StepResult(st, err) ==
    [ state  |-> st,
      after  |-> IF err = "none" /\ st.running THEN 1 ELSE 0,
      error  |-> err,
      popped |-> 1 ]

SetLastAction(history, action, rejected) ==
    [history EXCEPT ![Len(history)].action = action,
                    ![Len(history)].rejected = rejected]

\* animation_apply in which an equal score replaces as well.
animation_apply_tie(st, student, school) ==
    LET student_score == st.student_dict[student].score
        accepted      == st.schools_dict[school].accepted
        s3 == [st EXCEPT !.history = Append(@,
                  [student |-> student, school |-> school,
                   action |-> "None", rejected |-> "None"])]
    IN  IF Len(accepted) < st.schools_dict[school].capacity
        THEN StepResult(
                 [s3 EXCEPT !.schools_dict[school].accepted =
                                Append(accepted, <<student, student_score>>),
                            !.history = SetLastAction(@, "accepted", "None")],
                 "none")
        ELSE LET current == sorted_by_score(accepted)
             IN  IF student_score >= current[1][2]
                 THEN StepResult(
                          [s3 EXCEPT
                              !.schools_dict[school].accepted =
                                  Append(list_remove(accepted, current[1]),
                                         <<student, student_score>>),
                              !.unmatched = Append(@, current[1][1]),
                              !.history = SetLastAction(@, "replaced", current[1][1])],
                          "none")
                 ELSE StepResult(
                          [s3 EXCEPT
                              !.unmatched = Append(@, student),
                              !.history = SetLastAction(@, "rejected", "None")],
                          "none")

\* Lines 1130-1177: the application is logged, then decided.
animation_apply(st, student, school) ==
    LET student_score == st.student_dict[student].score
        accepted      == st.schools_dict[school].accepted
        capacity      == st.schools_dict[school].capacity
        s3 == [st EXCEPT !.history = Append(@,
                  [student |-> student, school |-> school,
                   action |-> "None", rejected |-> "None"])]
    IN  IF Len(accepted) < capacity
        THEN StepResult(
                 [s3 EXCEPT !.schools_dict[school].accepted =
                                Append(accepted, <<student, student_score>>),
                            !.history = SetLastAction(@, "accepted", "None")],
                 "none")
        ELSE IF accepted = <<>>
        THEN StepResult(s3, "IndexError")
        ELSE LET current == sorted_by_score(accepted)
             IN  IF student_score > current[1][2]
                 THEN LET rejected == current[1][1]
                      IN  StepResult(
                              [s3 EXCEPT
                                  !.schools_dict[school].accepted =
                                      Append(list_remove(accepted, current[1]),
                                             <<student, student_score>>),
                                  !.unmatched = Append(@, rejected),
                                  !.history = SetLastAction(@, "replaced", rejected)],
                              "none")
                 ELSE StepResult(
                          [s3 EXCEPT
                              !.unmatched = Append(@, student),
                              !.history = SetLastAction(@, "rejected", "None")],
                          "none")

\* animation_run_step whose complete branch leaves the running flag alone
\* and schedules the next tick like the other branches.
animation_run_step_rearm(st) ==
    IF st.unmatched = <<>>
    THEN [ state |-> st,
           after |-> IF st.running THEN 1 ELSE 0, error |-> "none", popped |-> 0 ]
    ELSE
    LET student == Head(st.unmatched)
        s1 == [st EXCEPT !.unmatched = Tail0(@), !.current_student = student]
    IN  IF student \notin DOMAIN st.student_dict
        THEN StepResult(s1, "KeyError")
        ELSE
        LET student_prefs == st.student_dict[student].prefs
        IN  IF st.pref_index[student] >= Len(student_prefs)
            THEN StepResult(s1, "none")
            ELSE
            LET school == student_prefs[st.pref_index[student] + 1]
                s2 == [s1 EXCEPT !.pref_index[student] = @ + 1,
                                 !.current_school = school,
                                 !.step = @ + 1]
            IN  IF school \notin DOMAIN st.schools_dict
                THEN StepResult([s2 EXCEPT !.unmatched = Append(@, student)], "none")
                ELSE animation_apply(s2, student, school)

\* animation_run_step that counts every pop as a step, the pop of a student
\* with no preference left included.
animation_run_step_count(st) ==
    IF st.unmatched = <<>>
    THEN [ state |-> [st EXCEPT !.running = FALSE],
           after |-> 0, error |-> "none", popped |-> 0 ]
    ELSE
    LET student == Head(st.unmatched)
        s1 == [st EXCEPT !.unmatched = Tail0(@), !.current_student = student,
                         !.step = @ + 1]
    IN  IF student \notin DOMAIN st.student_dict
        THEN StepResult(s1, "KeyError")
        ELSE
        LET student_prefs == st.student_dict[student].prefs
        IN  IF st.pref_index[student] >= Len(student_prefs)
            THEN StepResult(s1, "none")
            ELSE
            LET school == student_prefs[st.pref_index[student] + 1]
                s2 == [s1 EXCEPT !.pref_index[student] = @ + 1,
                                 !.current_school = school]
            IN  IF school \notin DOMAIN st.schools_dict
                THEN StepResult([s2 EXCEPT !.unmatched = Append(@, student)], "none")
                ELSE animation_apply(s2, student, school)

\* _animation_run_step, lines 1086-1177.
animation_run_step(st) ==
    IF st.unmatched = <<>>
    THEN [ state |-> [st EXCEPT !.running = FALSE],
           after |-> 0, error |-> "none", popped |-> 0 ]
    ELSE
    LET student == Head(st.unmatched)
        s1 == [st EXCEPT !.unmatched = Tail0(@), !.current_student = student]
    IN  IF student \notin DOMAIN st.student_dict
        THEN StepResult(s1, "KeyError")
        ELSE
        LET student_prefs == st.student_dict[student].prefs
        IN  IF st.pref_index[student] >= Len(student_prefs)
            THEN StepResult(s1, "none")
            ELSE
            LET school == student_prefs[st.pref_index[student] + 1]
                s2 == [s1 EXCEPT !.pref_index[student] = @ + 1,
                                 !.current_school = school,
                                 !.step = @ + 1]
            IN  IF school \notin DOMAIN st.schools_dict
                THEN StepResult([s2 EXCEPT !.unmatched = Append(@, student)], "none")
                ELSE animation_apply(s2, student, school)

(***************************************************************************)
(* The sensitivity analysis, lines 913-969.                                *)
(***************************************************************************)
\* Factors are multiples of 1/FactorUnit; the slider and the sweep range
\* over 0.5 .. 1.5 (lines 751 and 850).
FactorUnit == 2
Factors == {f \in 0..(2 * FactorUnit) : 2 * f >= FactorUnit /\ 2 * f <= 3 * FactorUnit}

\* int(x) of the quotient num/den: truncation toward zero.
int_trunc(num, den) ==
    IF num >= 0 THEN num \div den ELSE 0 - ((0 - num) \div den)

\* adjusted_score with math.floor in place of int.
adjusted_score_floor(score, f) == (score * f) \div FactorUnit

\* Line 918.
adjusted_score(score, f) == int_trunc(score * f, FactorUnit)

\* adjusted_students_of building the list with insert(0, ...): reversed.
adjusted_students_reversed(studs, f) ==
    [i \in DOMAIN studs |->
        [name  |-> studs[Len(studs) + 1 - i].name,
         prefs |-> studs[Len(studs) + 1 - i].prefs,
         score |-> adjusted_score(studs[Len(studs) + 1 - i].score, f)]]

\* Lines 916-919.
adjusted_students_of(studs, f) ==
    [i \in DOMAIN studs |->
        [name  |-> studs[i].name,
         prefs |-> studs[i].prefs,
         score |-> adjusted_score(studs[i].score, f)]]

\* dict.get(school, []) followed by set(...).
GetSet(m, school) ==
    IF school \in DOMAIN m THEN {m[school][k] : k \in DOMAIN m[school]} ELSE {}

\* symmetric_difference written as a plain set difference.
symmetric_difference_onesided(A, B) == A \ B

symmetric_difference(A, B) == (A \ B) \cup (B \ A)

RECURSIVE SumChanges(_, _, _)
SumChanges(S, original, adjusted) ==
    IF S = {} THEN 0
    ELSE LET school == CHOOSE x \in S : TRUE
         IN  Cardinality(symmetric_difference(GetSet(original, school),
                                              GetSet(adjusted, school)))
             + SumChanges(S \ {school}, original, adjusted)

\* _count_matching_changes, lines 960-969.
count_matching_changes(original, adjusted) ==
    SumChanges(DOMAIN original \cup DOMAIN adjusted, original, adjusted)

\* _display_matching_changes, lines 933-958: the schools whose sets differ,
\* each with the students removed and added; no entry is "No changes".
display_matching_changes(original, adjusted) ==
    [ done |-> TRUE,
      diff |-> [school \in {x \in DOMAIN original \cup DOMAIN adjusted :
                               GetSet(original, x) # GetSet(adjusted, x)} |->
                   [removed |-> GetSet(original, school) \ GetSet(adjusted, school),
                    added   |-> GetSet(adjusted, school) \ GetSet(original, school)]] ]

(***************************************************************************)
(* The strategic network simulation, src/th1_Marek_Sipek.py.  The window   *)
(* starts with NetSize nodes (30 in the source), Increase Size and         *)
(* Decrease Size change the size by NetSizeStep (10 in the source) and a   *)
(* simulation plays NetRounds rounds (10 in the source).  The three random *)
(* graph generators of initialize_network are one choice among the simple  *)
(* graphs on the nodes.                                                    *)
(***************************************************************************)
NetSize == 2
NetSizeStep == 1
NetMaxSize == 3
NetRounds == 2

Strategies == {"rock", "scissors", "paper"}
NetTypes == <<"random", "small_world", "preferential_attachment">>
NetNodes(size) == 0..(size - 1)
NetGraphs(size) ==
    SUBSET {e \in SUBSET NetNodes(size) : Cardinality(e) = 2}
NetStrategies(size) == [NetNodes(size) -> Strategies]

\* The fields as __init__ sets them, lines 16-24, before it calls
\* run_simulation.  graph and strategies are None.
StrategicNetwork0 ==
    [ pc               |-> "new",
      net_type         |-> "small_world",
      size             |-> NetSize,
      rounds           |-> NetRounds,
      current_round    |-> 0,
      graph            |-> [is_none |-> TRUE, edges |-> {}],
      strategies       |-> [is_none |-> TRUE, of |-> <<>>],
      strategy_history |-> <<>>,
      left             |-> 0 ]

\* play_round, lines 169-177.
play_round(player1, player2) ==
    IF player1 = player2 THEN 0
    ELSE IF <<player1, player2>> \in {<<"rock", "scissors">>,
                                      <<"scissors", "paper">>,
                                      <<"paper", "rock">>}
    THEN 1
    ELSE 0 - 1

neighbors(edges, node) == {m \in UNION edges : {node, m} \in edges /\ m # node}

\* The outcomes of random.choice(neighbors) for the nodes that have one.
OpponentChoices(edges, nodes) ==
    {c \in [{n \in nodes : neighbors(edges, n) # {}} -> nodes] :
        \A n \in DOMAIN c : c[n] \in neighbors(edges, n)}

\* update_strategies, lines 179-188, with the opponents drawn.
update_strategies(r, opponent) ==
    [r EXCEPT !.strategies.of =
        [node \in DOMAIN r.strategies.of |->
            IF node \in DOMAIN opponent
               /\ play_round(r.strategies.of[node],
                             r.strategies.of[opponent[node]]) = 0 - 1
            THEN r.strategies.of[opponent[node]]
            ELSE r.strategies.of[node]]]

CountOf(strategies, strategy) ==
    Cardinality({n \in DOMAIN strategies : strategies[n] = strategy})

\* record_strategy_counts, lines 149-156.
record_strategy_counts(r) ==
    IF r.strategies.is_none
    THEN r
    ELSE [r EXCEPT !.strategy_history =
             Append(@, [rock     |-> CountOf(r.strategies.of, "rock"),
                        scissors |-> CountOf(r.strategies.of, "scissors"),
                        paper    |-> CountOf(r.strategies.of, "paper")])]

\* Lines 111-115 and 129-133: a new graph and new strategies, an empty
\* history, round 0 and its record.
simulation_start(r, edges, strategies) ==
    record_strategy_counts(
        [r EXCEPT !.graph = [is_none |-> FALSE, edges |-> edges],
                  !.strategies = [is_none |-> FALSE, of |-> strategies],
                  !.strategy_history = <<>>,
                  !.current_round = 0])

\* Lines 118-120 and 137-139: one round played and recorded.
simulation_round(r, opponent) ==
    record_strategy_counts(
        [update_strategies(r, opponent) EXCEPT !.current_round = @ + 1])

(***************************************************************************)
(* Inputs.                                                                 *)
(***************************************************************************)
PrefLists(maxLen) == UNION {[1..n -> SchoolIds] : n \in 0..maxLen}
Scores == 1..MaxScore
Capacities == 1..MaxCapacity

\* Lists of n students with unique names, as add_student builds them.
StudentLists(n, maxLen, scores) ==
    {[i \in 1..n |->
        [name |-> StudentNames[i], prefs |-> p[i], score |-> sc[i]]] :
        p \in [1..n -> PrefLists(maxLen)], sc \in [1..n -> scores]}

\* School records as add_school builds them: positive capacity, accepted = [].
SchoolDicts ==
    {[s \in KnownSchools |-> [capacity |-> c[s], accepted |-> <<>>]] :
        c \in [KnownSchools -> Capacities]}

NoRun == gale_shapley_init(<<>>, [s \in {} |-> 0])
NoMatches == [s \in {} |-> <<>>]
NoAdjust == [factor |-> 0, original_students |-> <<>>]
NoShown == [done |-> FALSE, diff |-> [s \in {} |-> 0]]
Threads == {1, 2}
NoPar == [t \in Threads |->
             [pc |-> "start", factor |-> 0, adjusted_students |-> <<>>,
              original_students |-> <<>>, result |-> NoMatches]]

\* No call is in progress and no window is open.
NothingRunning ==
    /\ pc = "idle"
    /\ caller = "none"
    /\ run = NoRun
    /\ pops = 0
    /\ matches = NoMatches
    /\ state = animation_state0
    /\ anim_open = FALSE
    /\ ticks = 0
    /\ anim_error = "none"
    /\ anim_pops = 0
    /\ last_press = "none"
    /\ adjust = NoAdjust
    /\ shown = NoShown
    /\ sweep = <<>>
    /\ par = NoPar
    /\ net = StrategicNetwork0

InitWith(studentLists) ==
    /\ students \in studentLists
    /\ schools \in SchoolDicts
    /\ input = [students |-> students, schools |-> schools]
    /\ NothingRunning
    /\ analysis_open = FALSE
    /\ original_matches = NoMatches
    /\ adjusted_matches = NoMatches
    /\ changes = 0

Init == InitWith(StudentLists(NumStudents, MaxPrefLen, Scores))

(***************************************************************************)
(* Engine actions.                                                         *)
(***************************************************************************)
\* run_matching, lines 353-359: the button calls gale_shapley_matching.
run_matching ==
    /\ pc = "idle"
    /\ students # <<>>
    /\ DOMAIN schools # {}
    /\ pc' = "loop"
    /\ caller' = "run_matching"
    /\ run' = gale_shapley_init(students, schools)
    /\ pops' = 0
    /\ UNCHANGED <<dataVars, matches, animVars, sensVars, parVars, netVars>>

\* No run of the explored inputs comes near PopCap iterations; the cap
\* keeps the pop counter finite.
PopCap == 2 * NumStudents * (MaxPrefLen + 1)

\* One iteration of `while unmatched:` (lines 396-430).
gale_shapley_iterate ==
    /\ pc = "loop"
    /\ run.unmatched # <<>>
    /\ pops < PopCap
    /\ run' = loop_body(run)
    /\ pops' = pops + 1
    /\ pc' = IF run'.error = "none" THEN "loop" ELSE "raised"
    /\ UNCHANGED <<dataVars, caller, matches, animVars, sensVars, parVars, netVars>>

\* return_to_run_matching of an engine that admits into the School records
\* themselves: the accepted lists of the run are left in self.schools.
return_to_run_matching_persist ==
    /\ pc = "loop"
    /\ run.unmatched = <<>>
    /\ caller = "run_matching"
    /\ matches' = format_results(run.schools_dict)
    /\ schools' = [s \in DOMAIN schools |->
                      [schools[s] EXCEPT !.accepted = run.schools_dict[s].accepted]]
    /\ pc' = "idle"
    /\ caller' = "none"
    /\ UNCHANGED <<students, input, run, pops, animVars, sensVars, parVars, netVars>>

\* The loop ends and the call returns to run_matching (lines 432-436, 359).
return_to_run_matching ==
    /\ pc = "loop"
    /\ run.unmatched = <<>>
    /\ caller = "run_matching"
    /\ matches' = format_results(run.schools_dict)
    /\ pc' = "idle"
    /\ caller' = "none"
    /\ UNCHANGED <<dataVars, run, pops, animVars, sensVars, parVars, netVars>>

Next ==
    \/ run_matching
    \/ gale_shapley_iterate
    \/ return_to_run_matching

Spec == Init /\ [][Next]_vars


(***************************************************************************)
(* Animation actions.                                                      *)
(***************************************************************************)
\* What a callback that runs _animation_run_step leaves behind.
RunStepFrom(st, pending) ==
    LET res == animation_run_step(st)
    IN  /\ state' = res.state
        /\ ticks' = pending + res.after
        /\ anim_error' = res.error
        /\ anim_pops' = anim_pops + res.popped

\* Pending callbacks are capped: Start does not resume the animation while
\* MaxPendingTicks callbacks are already pending.
MaxPendingTicks == 2

\* animate_matching, lines 973-1041: opens the window and resets the session.
animate_matching ==
    /\ pc = "idle"
    /\ ~anim_open
    /\ students # <<>>
    /\ DOMAIN schools # {}
    /\ anim_open' = TRUE
    /\ state' = animation_reset_state(students, schools)
    /\ anim_error' = "none"
    /\ anim_pops' = 0
    /\ last_press' = "reset"
    /\ UNCHANGED <<dataVars, engineVars, ticks, sensVars, parVars, netVars>>

\* The Reset button: _animation_reset, lines 1043-1072.
animation_reset ==
    /\ pc = "idle"
    /\ anim_open
    /\ state' = animation_reset_state(students, schools)
    /\ anim_error' = "none"
    /\ anim_pops' = 0
    /\ last_press' = "reset"
    /\ UNCHANGED <<dataVars, engineVars, anim_open, ticks, sensVars, parVars, netVars>>

\* The Start button: _animation_start, lines 1074-1079.
animation_start ==
    /\ pc = "idle"
    /\ anim_open
    /\ IF ~state.running
       THEN /\ ticks < MaxPendingTicks
            /\ RunStepFrom([state EXCEPT !.running = TRUE], ticks)
            /\ last_press' = "resume"
       ELSE /\ state' = [state EXCEPT !.running = FALSE]
            /\ anim_error' = "none"
            /\ last_press' = "pause"
            /\ UNCHANGED <<ticks, anim_pops>>
    /\ UNCHANGED <<dataVars, engineVars, anim_open, sensVars, parVars, netVars>>

\* The Step button: _animation_step, lines 1081-1084.
animation_step ==
    /\ pc = "idle"
    /\ anim_open
    /\ RunStepFrom([state EXCEPT !.running = FALSE], ticks)
    /\ last_press' = "step"
    /\ UNCHANGED <<dataVars, engineVars, anim_open, sensVars, parVars, netVars>>

\* A pending canvas.after callback fires (lines 1106, 1126, 1176).
animation_tick ==
    /\ pc = "idle"
    /\ ticks > 0
    /\ RunStepFrom(state, ticks - 1)
    /\ UNCHANGED last_press
    /\ UNCHANGED <<dataVars, engineVars, anim_open, sensVars, parVars, netVars>>

AnimNext ==
    \/ animate_matching
    \/ animation_reset
    \/ animation_start
    \/ animation_step
    \/ animation_tick

SpecAnim == Init /\ [][AnimNext]_vars

(***************************************************************************)
(* The engine and the animation in one application: the Run Matching       *)
(* button and the animation window are used in any order.  The engine call *)
(* is synchronous, so no callback runs inside it.  The inputs are lists of *)
(* SmallNumStudents students with full preference lists, and lists of      *)
(* NumStudents students with preference lists of at most ShortPrefLen.     *)
(***************************************************************************)
SmallNumStudents == 2
ShortPrefLen == 1

AllInit ==
    InitWith(StudentLists(SmallNumStudents, MaxPrefLen, Scores)
             \cup StudentLists(NumStudents, ShortPrefLen, Scores))

AllNext == Next \/ AnimNext

SpecAll == AllInit /\ [][AllNext]_vars

\* The animation window alone, on the inputs of AllInit.
SpecSession == AllInit /\ [][AnimNext]_vars

\* The animation window under fairness of the timer: Tk's main loop runs a
\* canvas.after callback once its delay has elapsed, so a pending tick
\* fires.  Button presses are under no obligation.
FairSession == AllInit /\ [][AnimNext]_vars /\ WF_vars(animation_tick)

\* Engine runs over the same inputs, under fairness.  The loop is
\* straight-line code on the main thread: an iteration that can run does
\* run.
FairSpec == AllInit /\ [][Next]_vars /\ WF_vars(gale_shapley_iterate)

(***************************************************************************)
(* Sensitivity actions.                                                    *)
(***************************************************************************)
SensNumStudents == 2
SensMaxScore == 3
SensNegScores == 1
SensScores == (0 - SensNegScores)..SensMaxScore

SensInit == InitWith(StudentLists(SensNumStudents, MaxPrefLen, SensScores))

\* explore_score_sensitivity, lines 702-735: the baseline run.
explore_score_sensitivity ==
    /\ pc = "idle"
    /\ ~analysis_open
    /\ students # <<>>
    /\ DOMAIN schools # {}
    /\ pc' = "loop"
    /\ caller' = "explore"
    /\ run' = gale_shapley_init(students, schools)
    /\ pops' = 0
    /\ UNCHANGED <<dataVars, matches, animVars, sensVars, parVars, netVars>>

\* Line 735: original_matches = self.gale_shapley_matching().
return_to_explore ==
    /\ pc = "loop"
    /\ run.unmatched = <<>>
    /\ caller = "explore"
    /\ original_matches' = format_results(run.schools_dict)
    /\ analysis_open' = TRUE
    /\ pc' = "idle"
    /\ caller' = "none"
    /\ UNCHANGED <<dataVars, run, pops, matches, animVars,
                   adjust, adjusted_matches, changes, shown, sweep, parVars, netVars>>

\* _run_adjusted_matching(factor), lines 913-926, up to the engine's locals.
run_adjusted_matching(f) ==
    /\ pc = "idle"
    /\ analysis_open
    /\ adjust' = [factor |-> f, original_students |-> students]
    /\ students' = adjusted_students_of(students, f)
    /\ pc' = "loop"
    /\ caller' = "adjusted"
    /\ run' = gale_shapley_init(students', schools)
    /\ pops' = 0
    /\ adjusted_matches' = NoMatches
    /\ changes' = 0
    /\ UNCHANGED <<schools, input, matches, animVars,
                   analysis_open, original_matches, shown, sweep, parVars, netVars>>

\* return_to_adjusted without line 929: the students are not restored.
return_to_adjusted_unrestored ==
    /\ pc = "loop"
    /\ run.unmatched = <<>>
    /\ caller = "adjusted"
    /\ adjusted_matches' = format_results(run.schools_dict)
    /\ changes' = count_matching_changes(original_matches, adjusted_matches')
    /\ pc' = "idle"
    /\ caller' = "none"
    /\ UNCHANGED <<dataVars, run, pops, matches, animVars,
                   analysis_open, original_matches, adjust, shown, sweep, parVars, netVars>>

\* Lines 926-931, and the caller's count (lines 863-867).
return_to_adjusted ==
    /\ pc = "loop"
    /\ run.unmatched = <<>>
    /\ caller = "adjusted"
    /\ adjusted_matches' = format_results(run.schools_dict)
    /\ students' = adjust.original_students
    /\ changes' = count_matching_changes(original_matches, adjusted_matches')
    /\ pc' = "idle"
    /\ caller' = "none"
    /\ UNCHANGED <<schools, input, run, pops, matches, animVars,
                   analysis_open, original_matches, adjust, shown, sweep, parVars, netVars>>

SensNext ==
    \/ explore_score_sensitivity
    \/ return_to_explore
    \/ \E f \in Factors : run_adjusted_matching(f)
    \/ gale_shapley_iterate
    \/ return_to_adjusted

SpecSens == SensInit /\ [][SensNext]_vars

(***************************************************************************)
(* The two comparison functions on arbitrary pairs of result mappings:     *)
(* each mapping has any subset of the known schools as keys and, per key,  *)
(* a list of distinct names out of DiffNumStudents students.               *)
(***************************************************************************)
DiffNumStudents == 2
DiffNames == {StudentNames[i] : i \in 1..DiffNumStudents}
DiffLists ==
    {q \in UNION {[1..n -> DiffNames] : n \in 0..DiffNumStudents} :
        \A i, j \in DOMAIN q : i # j => q[i] # q[j]}
Allocations == UNION {[K -> DiffLists] : K \in SUBSET KnownSchools}

DiffInit ==
    /\ students = <<>>
    /\ schools = <<>>
    /\ input = [students |-> students, schools |-> schools]
    /\ NothingRunning
    /\ analysis_open = TRUE
    /\ original_matches \in Allocations
    /\ adjusted_matches \in Allocations
    /\ changes = 0 - 1

\* Line 866: changes = self._count_matching_changes(original, adjusted).
update_charts_count ==
    /\ analysis_open
    /\ changes' = count_matching_changes(original_matches, adjusted_matches)
    /\ UNCHANGED <<dataVars, engineVars, animVars, analysis_open,
                   original_matches, adjust, adjusted_matches, shown, sweep, parVars, netVars>>

\* Line 809: self._display_matching_changes(changes_text, original, adjusted).
update_text_display ==
    /\ analysis_open
    /\ shown' = display_matching_changes(original_matches, adjusted_matches)
    /\ UNCHANGED <<dataVars, engineVars, animVars, analysis_open,
                   original_matches, adjust, adjusted_matches, changes, sweep, parVars, netVars>>

DiffNext ==
    \/ update_charts_count
    \/ update_text_display

SpecDiff == DiffInit /\ [][DiffNext]_vars

(***************************************************************************)
(* update_charts, lines 852-874: the sweep.  The analysis window is open   *)
(* on the baseline; each iteration calls _run_adjusted_matching(factor),   *)
(* which is synchronous, and appends the factor's count of changes and     *)
(* per-school counts.  The factors come in any order, MaxSweepLen of them  *)
(* at most.                                                                *)
(***************************************************************************)
MaxSweepLen == 2

\* _run_adjusted_matching without line 929: self.students stays adjusted.
run_adjusted_matching_call_unrestored(studs, schs, f) ==
    LET adjusted_students == adjusted_students_of(studs, f)
    IN  [ adjusted_matches |-> gale_shapley_matching(adjusted_students, schs),
          students         |-> adjusted_students ]

\* _run_adjusted_matching(factor) as one call, lines 913-931: what it
\* returns and what it leaves in self.students.
run_adjusted_matching_call(studs, schs, f) ==
    LET adjusted_students == adjusted_students_of(studs, f)
        original_students == studs
    IN  [ adjusted_matches |-> gale_shapley_matching(adjusted_students, schs),
          students         |-> original_students ]

\* Lines 869-874: the number of students each school holds.
school_allocation_counts(schs, adjusted) ==
    [school \in DOMAIN schs |->
        IF school \in DOMAIN adjusted THEN Len(adjusted[school]) ELSE 0]

SweepInit ==
    /\ students \in StudentLists(SensNumStudents, MaxPrefLen, SensScores)
    /\ schools \in SchoolDicts
    /\ input = [students |-> students, schools |-> schools]
    /\ NothingRunning
    /\ analysis_open = TRUE
    /\ original_matches = gale_shapley_matching(students, schools)
    /\ adjusted_matches = NoMatches
    /\ changes = 0

\* Lines 853-859: update_charts starts over with empty lists.
update_charts_clear ==
    /\ analysis_open
    /\ sweep # <<>>
    /\ sweep' = <<>>
    /\ UNCHANGED <<dataVars, engineVars, animVars, analysis_open, original_matches,
                   adjust, adjusted_matches, changes, shown, parVars, netVars>>

\* Lines 861-874: one iteration of `for factor in factors_to_analyze`.
update_charts_iterate(f) ==
    /\ analysis_open
    /\ Len(sweep) < MaxSweepLen
    /\ LET call == run_adjusted_matching_call(students, schools, f)
       IN  /\ students' = call.students
           /\ adjusted_matches' = call.adjusted_matches
           /\ changes' = count_matching_changes(original_matches, call.adjusted_matches)
           /\ sweep' = Append(sweep,
                  [ factor  |-> f,
                    matches |-> call.adjusted_matches,
                    changes |-> changes',
                    counts  |-> school_allocation_counts(schools, call.adjusted_matches) ])
    /\ UNCHANGED <<schools, input, engineVars, animVars, analysis_open,
                   original_matches, adjust, shown, parVars, netVars>>

SweepNext ==
    \/ update_charts_clear
    \/ \E f \in Factors : update_charts_iterate(f)

SpecSweep == SweepInit /\ [][SweepNext]_vars

(***************************************************************************)
(* Two threads call _run_adjusted_matching(factor) with different factors  *)
(* and no lock, one step per statement of lines 916-929.  Every list that  *)
(* self.students can name holds the same names and preference lists, so    *)
(* the engine's result depends only on the scores it reads at lines        *)
(* 384-385 and the call is one step.                                       *)
(***************************************************************************)
ParInit ==
    /\ students \in StudentLists(SensNumStudents, ShortPrefLen, SensScores)
    /\ schools \in SchoolDicts
    /\ input = [students |-> students, schools |-> schools]
    /\ NothingRunning
    /\ analysis_open = TRUE
    /\ original_matches = NoMatches
    /\ adjusted_matches = NoMatches
    /\ changes = 0

ParFrame == UNCHANGED <<schools, input, engineVars, animVars, sensVars, netVars>>

\* Lines 916-919: adjusted_students is built from self.students.
par_build(t, f) ==
    /\ par[t].pc = "start"
    /\ \A u \in Threads \ {t} : par[u].pc = "start" \/ par[u].factor # f
    /\ par' = [par EXCEPT ![t].pc = "built",
                          ![t].factor = f,
                          ![t].adjusted_students = adjusted_students_of(students, f)]
    /\ UNCHANGED students
    /\ ParFrame

\* Line 922: original_students = self.students.
par_save(t) ==
    /\ par[t].pc = "built"
    /\ par' = [par EXCEPT ![t].pc = "saved", ![t].original_students = students]
    /\ UNCHANGED students
    /\ ParFrame

\* Line 925: self.students = adjusted_students.
par_swap(t) ==
    /\ par[t].pc = "saved"
    /\ students' = par[t].adjusted_students
    /\ par' = [par EXCEPT ![t].pc = "swapped"]
    /\ ParFrame

\* Line 926: adjusted_matches = self.gale_shapley_matching().
par_match(t) ==
    /\ par[t].pc = "swapped"
    /\ par' = [par EXCEPT ![t].pc = "matched",
                          ![t].result = gale_shapley_matching(students, schools)]
    /\ UNCHANGED students
    /\ ParFrame

\* Lines 929-931: self.students = original_students; return.
par_restore(t) ==
    /\ par[t].pc = "matched"
    /\ students' = par[t].original_students
    /\ par' = [par EXCEPT ![t].pc = "done"]
    /\ ParFrame

ParNext ==
    \E t \in Threads :
        \/ \E f \in Factors : par_build(t, f)
        \/ par_save(t)
        \/ par_swap(t)
        \/ par_match(t)
        \/ par_restore(t)

SpecPar == ParInit /\ [][ParNext]_vars

(***************************************************************************)
(* The engine and the animation on data that the entry forms would have    *)
(* rejected: capacities from -MaxNegCapacity up, names that may repeat.    *)
(* An exception raised inside a button handler unwinds to the Tk main loop,*)
(* which reports it and goes on.                                           *)
(***************************************************************************)
MaxNegCapacity == 1
WildNumStudents == 2
WildNames == {StudentNames[i] : i \in 1..WildNumStudents}
WildStudentLists ==
    {[i \in 1..WildNumStudents |->
        [name |-> nm[i], prefs |-> p[i], score |-> sc[i]]] :
        nm \in [1..WildNumStudents -> WildNames],
        p \in [1..WildNumStudents -> PrefLists(ShortPrefLen)],
        sc \in [1..WildNumStudents -> Scores]}
WildSchoolDicts ==
    {[s \in KnownSchools |-> [capacity |-> c[s], accepted |-> <<>>]] :
        c \in [KnownSchools -> (0 - MaxNegCapacity)..MaxCapacity]}

WildInit ==
    /\ students \in WildStudentLists
    /\ schools \in WildSchoolDicts
    /\ input = [students |-> students, schools |-> schools]
    /\ NothingRunning
    /\ analysis_open = FALSE
    /\ original_matches = NoMatches
    /\ adjusted_matches = NoMatches
    /\ changes = 0

\* The exception leaves run_matching at line 359: nothing is displayed.
report_callback_exception ==
    /\ pc = "raised"
    /\ pc' = "idle"
    /\ caller' = "none"
    /\ UNCHANGED <<dataVars, run, pops, matches, animVars, sensVars, parVars, netVars>>

WildNext ==
    \/ Next
    \/ AnimNext
    \/ report_callback_exception

SpecWild == WildInit /\ [][WildNext]_vars

(***************************************************************************)
(* The Run Matching button on lists of OrderNumStudents students whose     *)
(* scores range over 1..OrderMaxScore, so that the scores of a list can be *)
(* pairwise distinct.  The handler is one step: the call is synchronous.   *)
(***************************************************************************)
OrderNumStudents == 3
OrderMaxScore == 3

OrderInit == InitWith(StudentLists(OrderNumStudents, MaxPrefLen, 1..OrderMaxScore))

\* run_matching, lines 353-359, from the button press to the returned dict.
run_matching_call ==
    /\ pc = "idle"
    /\ students # <<>>
    /\ DOMAIN schools # {}
    /\ matches' = gale_shapley_matching(students, schools)
    /\ UNCHANGED <<dataVars, pc, caller, run, pops, animVars, sensVars, parVars, netVars>>

OrderNext == run_matching_call

SpecOrder == OrderInit /\ [][OrderNext]_vars

(***************************************************************************)
(* The StrategicNetwork window.  __init__ ends by calling run_simulation;  *)
(* the buttons work once the window is built.  The loop of run_simulation  *)
(* is synchronous: no button handler runs inside it.                       *)
(***************************************************************************)
\* The history is allowed to grow to MaxHistoryLen records: two simulations
\* of NetRounds rounds.
MaxHistoryLen == 6

\* The matcher of src/th2_Marek_Sipek.py is another program: it is not
\* running and holds no data.
NetInit ==
    /\ students = <<>>
    /\ schools = [s \in {} |-> 0]
    /\ input = [students |-> students, schools |-> schools]
    /\ NothingRunning
    /\ analysis_open = FALSE
    /\ original_matches = NoMatches
    /\ adjusted_matches = NoMatches
    /\ changes = 0

MatcherIdle == UNCHANGED <<dataVars, engineVars, animVars, sensVars, parVars>>

\* run_simulation, lines 111-115 (r is self after the caller's own writes).
run_simulation_begin(r) ==
    \E edges \in NetGraphs(r.size) : \E strategies \in NetStrategies(r.size) :
        net' = [simulation_start(r, edges, strategies) EXCEPT
                   !.pc = IF r.rounds > 0 THEN "loop" ELSE "idle",
                   !.left = r.rounds]

\* Line 27: the constructor runs the first simulation.
StrategicNetwork_init ==
    /\ net.pc = "new"
    /\ run_simulation_begin(net)
    /\ MatcherIdle

\* The Run Simulation button, line 72.
run_simulation ==
    /\ net.pc = "idle"
    /\ run_simulation_begin(net)
    /\ MatcherIdle

\* One iteration of `for _ in range(self.rounds)`, lines 117-120; after the
\* last one the displays are redrawn (lines 122-124).
run_simulation_round ==
    /\ net.pc = "loop"
    /\ net.left > 0
    /\ \E opponent \in OpponentChoices(net.graph.edges, NetNodes(net.size)) :
           net' = [simulation_round(net, opponent) EXCEPT
                      !.left = @ - 1,
                      !.pc = IF net.left = 1 THEN "idle" ELSE "loop"]
    /\ MatcherIdle

\* Lines 135-147 of step_simulation, from r: a round is played while the
\* round counter is below rounds; at rounds the counter is put back to 0 and
\* the counts are recorded once more.
step_from(r) ==
    IF r.current_round < r.rounds
    THEN \E opponent \in OpponentChoices(r.graph.edges, NetNodes(r.size)) :
             net' = simulation_round(r, opponent)
    ELSE net' = record_strategy_counts([r EXCEPT !.current_round = 0])

\* step_simulation, lines 126-147.
step_simulation ==
    /\ net.pc = "idle"
    /\ Len(net.strategy_history) < MaxHistoryLen
    /\ IF net.graph.is_none \/ net.strategies.is_none
       THEN \E edges \in NetGraphs(net.size) :
                \E strategies \in NetStrategies(net.size) :
                    step_from(simulation_start(net, edges, strategies))
       ELSE step_from(net)
    /\ MatcherIdle

\* increase_size, lines 227-229.
increase_size ==
    /\ net.pc = "idle"
    /\ net.size + NetSizeStep <= NetMaxSize
    /\ run_simulation_begin([net EXCEPT !.size = @ + NetSizeStep])
    /\ MatcherIdle

\* decrease_size, lines 231-234: nothing happens at the smallest size.
decrease_size ==
    /\ net.pc = "idle"
    /\ net.size > NetSizeStep
    /\ run_simulation_begin([net EXCEPT !.size = @ - NetSizeStep])
    /\ MatcherIdle

\* change_network, lines 236-239.
change_network ==
    /\ net.pc = "idle"
    /\ LET i == CHOOSE k \in DOMAIN NetTypes : NetTypes[k] = net.net_type
       IN  run_simulation_begin([net EXCEPT !.net_type = NetTypes[(i % 3) + 1]])
    /\ MatcherIdle

NetNext ==
    \/ StrategicNetwork_init
    \/ run_simulation
    \/ run_simulation_round
    \/ step_simulation
    \/ increase_size
    \/ decrease_size
    \/ change_network

SpecNet == NetInit /\ [][NetNext]_vars

(***************************************************************************)
(* Properties.                                                             *)
(***************************************************************************)
\* The engine has left its loop and is about to build the result.
EngineDone == pc = "loop" /\ run.unmatched = <<>>

AdmittedNames(schools_dict, s) ==
    {schools_dict[s].accepted[k][1] : k \in DOMAIN schools_dict[s].accepted}

IsFull(schools_dict, s) ==
    Len(schools_dict[s].accepted) = schools_dict[s].capacity

WithinCapacity(schools_dict) ==
    \A s \in DOMAIN schools_dict :
        Len(schools_dict[s].accepted) <= schools_dict[s].capacity

\* C1: capacity invariant.  In every state of an engine run (between loop
\* iterations and at termination) and of an animation session, every
\* school's accepted list is no longer than the school's capacity.
CapacityInvariant ==
    /\ WithinCapacity(run.schools_dict)
    /\ WithinCapacity(state.schools_dict)

\* A run and a session that each hold a full school, the session after a
\* replacement.
CapacityWitness ==
    /\ pc = "loop"
    /\ \E s \in DOMAIN run.schools_dict :
           IsFull(run.schools_dict, s) /\ run.unmatched # <<>>
    /\ \E s \in DOMAIN state.schools_dict : IsFull(state.schools_dict, s)
    /\ \E k \in DOMAIN state.history : state.history[k].action = "replaced"

\* C2: equivalence law.  After k pops the session's queue, cursors and
\* accepted lists are the engine's after k loop iterations on the same
\* data, and a session whose queue is empty holds the Allocation that
\* gale_shapley_matching returns.
SessionEquivalence ==
    anim_open =>
        LET e == engine_after(gale_shapley_init(students, schools), anim_pops)
        IN  /\ state.unmatched = e.unmatched
            /\ state.pref_index = e.pref_index
            /\ state.schools_dict = e.schools_dict
            /\ state.student_dict = e.student_dict
            /\ state.unmatched = <<>> =>
                   format_results(state.schools_dict)
                       = gale_shapley_matching(students, schools)

\* A completed session in which a student was replaced and another one
\* ran out of preferences.
SessionEquivalenceWitness ==
    /\ anim_open
    /\ state.unmatched = <<>>
    /\ \E k \in DOMAIN state.history : state.history[k].action = "replaced"
    /\ anim_pops > state.step
    /\ \E s \in DOMAIN state.schools_dict : Len(state.schools_dict[s].accepted) = 2

\* The school to which n is admitted in schools_dict, if any.
IsAdmitted(schools_dict, n) ==
    \E s \in DOMAIN schools_dict : n \in AdmittedNames(schools_dict, s)

\* The positions of n's preference list that come before its final match
\* (all of them when n ends unmatched).
PositionsTried(r, n) ==
    IF IsAdmitted(r.schools_dict, n)
    THEN 1..(r.pref_index[n] - 1)
    ELSE 1..Len(r.student_dict[n].prefs)

\* n listed s ahead of its final match, so s turned n away.
TurnedAway(r, n, s) ==
    /\ n \notin AdmittedNames(r.schools_dict, s)
    /\ \E i \in PositionsTried(r, n) : r.student_dict[n].prefs[i] = s

\* C3: stability.  At termination, in every school filled to capacity,
\* every admitted score is >= the score of every student who listed that
\* school ahead of its final match (or ended unmatched) and was turned
\* away by it.
Stability ==
    EngineDone =>
        \A s \in DOMAIN run.schools_dict :
            IsFull(run.schools_dict, s) =>
                \A k \in DOMAIN run.schools_dict[s].accepted :
                    \A n \in DOMAIN run.student_dict :
                        TurnedAway(run, n, s) =>
                            run.schools_dict[s].accepted[k][2]
                                >= run.student_dict[n].score

\* A finished run with a full school that turned away one student who
\* ended unmatched and another who ended in a later choice.
StabilityWitness ==
    /\ EngineDone
    /\ \E s \in DOMAIN run.schools_dict :
           /\ IsFull(run.schools_dict, s)
           /\ \E n, m \in DOMAIN run.student_dict :
                  /\ TurnedAway(run, n, s) /\ ~IsAdmitted(run.schools_dict, n)
                  /\ TurnedAway(run, m, s) /\ IsAdmitted(run.schools_dict, m)

\* C4: termination.  Every engine run reaches the end of its loop (an
\* empty queue), whatever the preference lists contain.
Termination == (pc = "loop") ~> EngineDone

HasRepeat(prefs) ==
    \E i, j \in DOMAIN prefs : i # j /\ prefs[i] = prefs[j]

\* A finished run over an empty list, a list naming an unknown school and
\* a list repeating a school.
TerminationWitness ==
    /\ EngineDone
    /\ \E n, m, o \in DOMAIN run.student_dict :
           /\ run.student_dict[n].prefs = <<>>
           /\ \E i \in DOMAIN run.student_dict[m].prefs :
                  run.student_dict[m].prefs[i] \notin DOMAIN run.schools_dict
           /\ HasRepeat(run.student_dict[o].prefs)
           /\ run.pref_index[o] = Len(run.student_dict[o].prefs)

RECURSIVE SumPrefLens(_, _)
SumPrefLens(student_dict, S) ==
    IF S = {} THEN 0
    ELSE LET n == CHOOSE x \in S : TRUE
         IN  Len(student_dict[n].prefs) + SumPrefLens(student_dict, S \ {n})

TotalPrefLen == SumPrefLens(run.student_dict, DOMAIN run.student_dict)

\* C5 as stated: a finished run has made at most as many pops as the sum of
\* the lengths of the preference lists.
TerminationBoundAsStated == EngineDone => pops <= TotalPrefLen

\* C5, amended: at every point of a run the number of pops made is at most
\* the sum of the lengths of the preference lists plus the number of
\* students (each student's last pop may find its list exhausted).
TerminationBound ==
    pc = "loop" => pops <= TotalPrefLen + Cardinality(DOMAIN run.student_dict)

\* A finished run that needed more pops than the sum of the list lengths.
TerminationBoundWitness ==
    /\ EngineDone
    /\ TotalPrefLen > 0
    /\ pops = TotalPrefLen + Cardinality(DOMAIN run.student_dict)

OnlyUnknown(r, n) ==
    \A i \in DOMAIN r.student_dict[n].prefs :
        r.student_dict[n].prefs[i] \notin DOMAIN r.schools_dict

\* C6: graceful degradation.  A run raises no exception, and a student
\* whose preference list is empty or names only unknown schools is in no
\* accepted list at any point of the run.
GracefulDegradation ==
    /\ pc # "raised"
    /\ run.error = "none"
    /\ \A n \in DOMAIN run.student_dict :
           OnlyUnknown(run, n) => ~IsAdmitted(run.schools_dict, n)

\* A finished run with a student without preferences, a student who tried
\* only unknown schools, and an admitted student.
GracefulDegradationWitness ==
    /\ EngineDone
    /\ \E n, m, o \in DOMAIN run.student_dict :
           /\ run.student_dict[n].prefs = <<>>
           /\ OnlyUnknown(run, m) /\ run.pref_index[m] = 2
           /\ IsAdmitted(run.schools_dict, o)

NoDuplicates(q) == \A i, j \in DOMAIN q : i # j => q[i] # q[j]

AcceptedNames(accepted) == [k \in DOMAIN accepted |-> accepted[k][1]]

Exclusive(unmatched, schools_dict) ==
    /\ NoDuplicates(unmatched)
    /\ \A i \in DOMAIN unmatched : ~IsAdmitted(schools_dict, unmatched[i])
    /\ \A s \in DOMAIN schools_dict :
           NoDuplicates(AcceptedNames(schools_dict[s].accepted))
    /\ \A s, t \in DOMAIN schools_dict :
           s # t => AdmittedNames(schools_dict, s)
                        \cap AdmittedNames(schools_dict, t) = {}

\* C7: queue/admitted exclusivity.  Between steps of an engine run or of a
\* session, no student is both queued and admitted, none is admitted twice
\* (to two schools or twice to one), and none is queued twice.
Exclusivity ==
    /\ Exclusive(run.unmatched, run.schools_dict)
    /\ Exclusive(state.unmatched, state.schools_dict)

\* A run and a session, each with a replaced student back in the queue
\* while other students are admitted.
ExclusivityWitness ==
    /\ pc = "loop"
    /\ run.unmatched # <<>>
    /\ \E n \in DOMAIN run.student_dict :
           /\ \E i \in DOMAIN run.unmatched : run.unmatched[i] = n
           /\ run.pref_index[n] > 0
    /\ \E s \in DOMAIN run.schools_dict : run.schools_dict[s].accepted # <<>>
    /\ \E k \in DOMAIN state.history :
           /\ state.history[k].action = "replaced"
           /\ \E i \in DOMAIN state.unmatched :
                  state.unmatched[i] = state.history[k].rejected

\* The run_matching call has returned and its result is displayed.
Returned == pc = "idle" /\ matches # NoMatches

PositionIn(accepted, n) == CHOOSE k \in DOMAIN accepted : accepted[k][1] = n

\* C8: allocation shape.  The returned mapping has exactly the known
\* schools as keys; each school's sequence holds exactly the names of its
\* accepted list at termination, by descending score, students of equal
\* score in the order in which the school admitted them.
AllocationShape ==
    Returned =>
        /\ DOMAIN matches = DOMAIN schools
        /\ \A s \in DOMAIN matches :
               LET accepted == run.schools_dict[s].accepted
               IN  /\ Len(matches[s]) = Len(accepted)
                   /\ {matches[s][k] : k \in DOMAIN matches[s]}
                          = AdmittedNames(run.schools_dict, s)
                   /\ \A i, j \in DOMAIN matches[s] :
                          i < j =>
                              LET pi == PositionIn(accepted, matches[s][i])
                                  pj == PositionIn(accepted, matches[s][j])
                              IN  \/ accepted[pi][2] > accepted[pj][2]
                                  \/ /\ accepted[pi][2] = accepted[pj][2]
                                     /\ pi < pj

\* A returned mapping with an empty school and a school holding two
\* students of equal score, admitted in the order second-in-input first.
AllocationShapeWitness ==
    /\ Returned
    /\ \E s, t \in DOMAIN matches :
           /\ matches[s] = <<>>
           /\ Len(matches[t]) = 2
           /\ run.schools_dict[t].accepted[1][2] = run.schools_dict[t].accepted[2][2]
           /\ matches[t][1] # students[1].name
           /\ matches[t][2] = students[1].name

\* _run_adjusted_matching has returned and its result has been counted.
AdjustedReturned == pc = "idle" /\ adjusted_matches # NoMatches

InputPreserved ==
    pc = "idle" =>
        /\ students = input.students
        /\ schools = input.schools

\* An adjusted run has returned whose factor changed some student's score.
InputPreservedWitness ==
    /\ AdjustedReturned
    /\ adjust.factor # FactorUnit
    /\ adjusted_students_of(students, adjust.factor) # students
    /\ \E i \in DOMAIN students : students[i].score < 0

\* _run_adjusted_matching has swapped the adjusted list in and the engine is
\* running on it.
AdjustedRunning == pc = "loop" /\ caller = "adjusted"

Abs(x) == IF x < 0 THEN 0 - x ELSE x

\* Same names and preference lists, position by position.
SameIdsAndPrefs(adjusted, original) ==
    /\ Len(adjusted) = Len(original)
    /\ \A i \in DOMAIN original :
           /\ adjusted[i].name = original[i].name
           /\ adjusted[i].prefs = original[i].prefs

\* C11 as stated: in the adjusted run every applicant's score is
\* floor(score * factor), for positive, zero and negative scores alike, with
\* id and preference list equal to the original's.
ScoreAdjustmentFloor ==
    AdjustedRunning =>
        /\ SameIdsAndPrefs(students, adjust.original_students)
        /\ \A i \in DOMAIN students :
               students[i].score =
                   (adjust.original_students[i].score * adjust.factor) \div FactorUnit

\* C11: score adjustment.  In the adjusted run every applicant's score is
\* score * factor truncated toward zero (the integer q of the same sign as
\* the product with |q| <= |score * factor| < |q| + 1: the floor of a
\* non-negative product, the ceiling of a negative one), with id and
\* preference list equal to the original's; the engine's own copy holds the
\* same scores.
ScoreAdjustment ==
    AdjustedRunning =>
        /\ SameIdsAndPrefs(students, adjust.original_students)
        /\ \A i \in DOMAIN students :
               LET product == adjust.original_students[i].score * adjust.factor
                   q       == students[i].score
               IN  /\ Abs(q) * FactorUnit <= Abs(product)
                   /\ Abs(product) < (Abs(q) + 1) * FactorUnit
                   /\ (q > 0 => product > 0)
                   /\ (q < 0 => product < 0)
                   /\ run.student_dict[students[i].name].score = q

\* An adjusted run in progress in which one original score is negative and
\* another positive, and neither product is a whole number.
ScoreAdjustmentWitness ==
    /\ AdjustedRunning
    /\ \E i, j \in DOMAIN students :
           /\ adjust.original_students[i].score < 0
           /\ adjust.original_students[j].score > 0
           /\ (adjust.original_students[i].score * adjust.factor) % FactorUnit # 0
           /\ (adjust.original_students[j].score * adjust.factor) % FactorUnit # 0

\* The ids listed for a slot, a missing slot counting as empty.
IdsAt(allocation, slot) ==
    IF slot \in DOMAIN allocation
    THEN {n \in DiffNames : \E k \in DOMAIN allocation[slot] : allocation[slot][k] = n}
    ELSE {}

\* The (slot, id) pairs that are in exactly one of the two Allocations.
ChangedPairs(baseline, adjusted) ==
    {pr \in KnownSchools \X DiffNames :
        (pr[2] \in IdsAt(baseline, pr[1])) # (pr[2] \in IdsAt(adjusted, pr[1]))}

\* C12: diff and instabilityCount.  For any two Allocations the displayed
\* diff has, for exactly the slots whose id sets differ, added = the ids in
\* adjusted but not baseline and removed = the ids in baseline but not
\* adjusted, and _count_matching_changes returns the number of (slot, id)
\* pairs in exactly one of the two, a missing slot counting as empty: two
\* Allocations that differ only in order within slots count 0.
DiffAndCount ==
    /\ shown.done =>
           \A slot \in KnownSchools :
               LET added   == IdsAt(adjusted_matches, slot) \ IdsAt(original_matches, slot)
                   removed == IdsAt(original_matches, slot) \ IdsAt(adjusted_matches, slot)
               IN  IF added = {} /\ removed = {}
                   THEN slot \notin DOMAIN shown.diff
                   ELSE /\ slot \in DOMAIN shown.diff
                        /\ shown.diff[slot].added = added
                        /\ shown.diff[slot].removed = removed
    /\ changes >= 0 =>
           /\ changes = Cardinality(ChangedPairs(original_matches, adjusted_matches))
           /\ (\A slot \in KnownSchools :
                   IdsAt(original_matches, slot) = IdsAt(adjusted_matches, slot))
                   => changes = 0

\* Both functions have run on a baseline and an adjusted Allocation with
\* different key sets, in which one applicant moved from one slot to
\* another and nothing else changed (counted 2).
DiffAndCountWitness ==
    /\ shown.done
    /\ changes = 2
    /\ DOMAIN original_matches # DOMAIN adjusted_matches
    /\ \E n \in DiffNames : \E s, t \in KnownSchools :
           /\ s # t
           /\ n \in IdsAt(original_matches, s) \ IdsAt(adjusted_matches, s)
           /\ n \in IdsAt(adjusted_matches, t) \ IdsAt(original_matches, t)
           /\ shown.diff[s].removed = {n}
           /\ shown.diff[t].added = {n}

\* C13: per-run state is private.  Neither an engine run nor any sequence
\* of session steps and resets changes the persisted applicant list or any
\* persisted School record (capacity and accepted list), and every engine
\* run on the data returns the Allocation of the data as entered: once a
\* run has returned, a later return never changes the result.
PrivateRunState ==
    /\ [](/\ students = input.students
          /\ schools = input.schools
          /\ \A s \in DOMAIN schools : schools[s].accepted = <<>>
          /\ matches # NoMatches =>
                 matches = gale_shapley_matching(input.students, input.schools))
    /\ [][matches # NoMatches => matches' = matches]_vars

\* A second engine run is about to return while a session is open in which
\* steps have admitted students.
PrivateRunStateWitness ==
    /\ EngineDone
    /\ matches # NoMatches
    /\ anim_open
    /\ state.history # <<>>
    /\ \E s \in DOMAIN state.schools_dict : state.schools_dict[s].accepted # <<>>
    /\ \E s \in DOMAIN run.schools_dict : run.schools_dict[s].accepted # <<>>

\* The queue, the cursors and the admitted lists of the session.
SessionCore == <<state.unmatched, state.pref_index, state.schools_dict>>

\* The step taken is one that popped an applicant off a non-empty queue.
StepExecuted == anim_pops' = anim_pops + 1

StepActions == {"accepted", "replaced", "rejected", "no-preferences-left", "unknown-slot"}

\* C14: one StepRecord per step.  Every step executed on a session whose
\* queue is non-empty appends exactly one record to the session's history,
\* with one of the five actions, naming the popped applicant and carrying an
\* evicted applicant exactly when the action is replaced.
OneRecordPerStep ==
    [][StepExecuted =>
          /\ Len(state'.history) = Len(state.history) + 1
          /\ SubSeq(state'.history, 1, Len(state.history)) = state.history
          /\ LET record == state'.history[Len(state'.history)]
             IN  /\ record.student = state'.current_student
                 /\ record.action \in StepActions
                 /\ (record.rejected # "None") <=> (record.action = "replaced")]_vars

\* C15: pause.  Once Start has paused the animation, no step is executed
\* until Start or Step is pressed again: while the last button handler is
\* the pause, the queue, the cursors, the admitted lists and the history stay
\* unchanged.
PauseHolds ==
    [][(last_press = "pause" /\ last_press' = "pause") =>
          /\ SessionCore' = SessionCore
          /\ state'.history = state.history]_vars

\* C16: cancel.  After Reset, and until Start or Step is next pressed, the
\* session is the freshly initialised one: queue = all names in input
\* order, every cursor 0, every admitted list empty, empty history, step
\* counter 0, not running.
ResetHolds ==
    last_press = "reset" =>
        /\ state = animation_reset_state(input.students, input.schools)
        /\ state.unmatched = [i \in DOMAIN input.students |-> input.students[i].name]
        /\ \A n \in DOMAIN state.pref_index : state.pref_index[n] = 0
        /\ \A s \in DOMAIN state.schools_dict : state.schools_dict[s].accepted = <<>>
        /\ state.history = <<>>
        /\ state.step = 0
        /\ ~state.running

\* C18: replay.  The history determines the session state: a step that is
\* not a reset and leaves the history as it was also leaves the queue, the
\* cursors and the admitted lists as they were, so that replaying the
\* history from the initial session state reconstructs them.
ReplayDetermines ==
    [][(anim_open /\ ~animation_reset /\ state'.history = state.history) =>
          SessionCore' = SessionCore]_vars

\* C20: completion.  A session is complete iff its queue is empty; a button
\* handler or tick other than Reset on a complete session changes none of
\* queue, cursors, admitted lists, step counter and history, leaves running
\* false and schedules no further tick.
Completion ==
    [][(anim_open /\ state.unmatched = <<>> /\ ~animation_reset) =>
          /\ SessionCore' = SessionCore
          /\ state'.step = state.step
          /\ state'.history = state.history
          /\ ~state'.running
          /\ ticks' <= ticks
          /\ anim_pops' = anim_pops]_vars

\* Start was the last button pressed, the session has since run to
\* completion, and the step invoked on the complete session has stopped the
\* animation: not running, no tick pending.
CompletionWitness ==
    /\ anim_open
    /\ state.unmatched = <<>>
    /\ last_press = "resume"
    /\ ~state.running
    /\ ticks = 0
    /\ state.history # <<>>

\* What _run_adjusted_matching(factor) returns when it runs alone on the
\* data as entered.
AloneResult(f) ==
    gale_shapley_matching(adjusted_students_of(input.students, f), input.schools)

\* C28: sweep independence.  In a sweep over any sequence of factors, the
\* Allocation, the count of changes and the per-school counts recorded for
\* a factor are those of a standalone evaluation at that factor on the data
\* as entered against the same baseline, whatever was evaluated before; the
\* baseline and the applicant collection are the same before, during and
\* after the sweep.
SweepIndependence ==
    /\ students = input.students
    /\ schools = input.schools
    /\ LET baseline == gale_shapley_matching(input.students, input.schools)
       IN  /\ original_matches = baseline
           /\ \A k \in DOMAIN sweep :
                  LET alone == AloneResult(sweep[k].factor)
                  IN  /\ sweep[k].matches = alone
                      /\ sweep[k].changes = count_matching_changes(baseline, alone)
                      /\ \A s \in DOMAIN input.schools :
                             sweep[k].counts[s] = Len(alone[s])

\* A sweep of MaxSweepLen factors that starts with two factors in
\* descending order whose evaluations gave different Allocations and
\* counts, the second different from the baseline, on applicants of whom
\* one has a negative score.
SweepIndependenceWitness ==
    /\ Len(sweep) = MaxSweepLen
    /\ sweep[1].factor > sweep[2].factor
    /\ sweep[1].matches # sweep[2].matches
    /\ sweep[1].counts # sweep[2].counts
    /\ sweep[2].changes > 0
    /\ \E i \in DOMAIN students : students[i].score < 0

\* C17: parallel sweep safety.  When two calls of _run_adjusted_matching
\* at different factors are interleaved, each returns the Allocation it
\* returns when run alone, and after both have finished self.students is the
\* original list.
ParallelSweepSafe ==
    /\ \A t \in Threads :
           par[t].pc \in {"matched", "done"} => par[t].result = AloneResult(par[t].factor)
    /\ (\A t \in Threads : par[t].pc = "done") => students = input.students

\* C19: no abort on well-typed input.  Neither an engine run nor a session
\* step raises an exception, whatever the capacities (zero and negative
\* included) and however names repeat.
NoAbort ==
    /\ pc # "raised"
    /\ run.error = "none"
    /\ anim_error = "none"

\* The step taken is one iteration of the engine's loop.
EngineStep == pops' = pops + 1

\* What a pop of the head of the queue does to the cursors: the popped
\* applicant's cursor goes up by one if it was below the length of its list
\* and stays otherwise; every other cursor stays.
CursorRule(unmatched, pref_index, pref_index_after, student_dict) ==
    /\ DOMAIN pref_index_after = DOMAIN pref_index
    /\ \A n \in DOMAIN pref_index :
           pref_index_after[n] =
               IF n = Head(unmatched) /\ pref_index[n] < Len(student_dict[n].prefs)
               THEN pref_index[n] + 1
               ELSE pref_index[n]

CursorsWithin(pref_index, student_dict) ==
    \A n \in DOMAIN pref_index :
        pref_index[n] >= 0 /\ pref_index[n] <= Len(student_dict[n].prefs)

\* C21: cursor discipline.  In the engine and in the session every cursor
\* is 0 before the first pop, stays between 0 and the length of the
\* applicant's preference list, and every pop of an applicant whose cursor
\* is below that length raises that cursor by exactly 1, whatever the
\* outcome, and leaves every other cursor unchanged (so no cursor ever
\* decreases).
CursorDiscipline ==
    /\ [](/\ CursorsWithin(run.pref_index, run.student_dict)
          /\ CursorsWithin(state.pref_index, state.student_dict)
          /\ (pc = "loop" /\ pops = 0) =>
                 \A n \in DOMAIN run.pref_index : run.pref_index[n] = 0
          /\ (anim_open /\ anim_pops = 0) =>
                 \A n \in DOMAIN state.pref_index : state.pref_index[n] = 0)
    /\ [][EngineStep =>
             CursorRule(run.unmatched, run.pref_index, run'.pref_index,
                        run.student_dict)]_vars
    /\ [][StepExecuted =>
             CursorRule(state.unmatched, state.pref_index, state'.pref_index,
                        state.student_dict)]_vars

\* The engine has moved a cursor to the end of a list of MaxPrefLen
\* preferences while the session has advanced a cursor on an attempt that
\* left no record (an unknown school) and holds a cursor still at 0.
CursorDisciplineWitness ==
    /\ pc = "loop"
    /\ \E n \in DOMAIN run.pref_index :
           /\ run.pref_index[n] = MaxPrefLen
           /\ Len(run.student_dict[n].prefs) = MaxPrefLen
    /\ anim_open
    /\ state.history = <<>>
    /\ \E n, m \in DOMAIN state.pref_index :
           /\ state.pref_index[n] = 1
           /\ state.pref_index[m] = 0
           /\ Len(state.student_dict[m].prefs) > 0

InQueue(unmatched, n) == \E i \in DOMAIN unmatched : unmatched[i] = n

\* n has used up its preference list and is neither queued nor admitted.
Discarded(unmatched, pref_index, student_dict, schools_dict, n) ==
    /\ pref_index[n] = Len(student_dict[n].prefs)
    /\ ~InQueue(unmatched, n)
    /\ ~IsAdmitted(schools_dict, n)

\* The applicant at the head of the queue has no preference left.
HeadExhausted(unmatched, pref_index, student_dict) ==
    pref_index[Head(unmatched)] = Len(student_dict[Head(unmatched)].prefs)

\* C22: exhausted applicant.  A pop of an applicant whose cursor equals the
\* length of its preference list removes it from the queue and changes
\* nothing else (cursors, admitted lists, rest of the queue), and an
\* applicant so discarded is never again in the queue or in an admitted list
\* for the rest of the run.
ExhaustedApplicant ==
    /\ [][(EngineStep /\ HeadExhausted(run.unmatched, run.pref_index, run.student_dict)) =>
             /\ run' = [run EXCEPT !.unmatched = Tail(run.unmatched)]
             /\ Discarded(run'.unmatched, run'.pref_index, run'.student_dict,
                          run'.schools_dict, Head(run.unmatched))]_vars
    /\ [][(StepExecuted /\ HeadExhausted(state.unmatched, state.pref_index, state.student_dict)) =>
             /\ state'.unmatched = Tail(state.unmatched)
             /\ state'.pref_index = state.pref_index
             /\ state'.schools_dict = state.schools_dict
             /\ Discarded(state'.unmatched, state'.pref_index, state'.student_dict,
                          state'.schools_dict, Head(state.unmatched))]_vars
    /\ [][EngineStep =>
             \A n \in DOMAIN run.pref_index :
                 Discarded(run.unmatched, run.pref_index, run.student_dict,
                           run.schools_dict, n)
                 => Discarded(run'.unmatched, run'.pref_index, run'.student_dict,
                              run'.schools_dict, n)]_vars
    /\ [][StepExecuted =>
             \A n \in DOMAIN state.pref_index :
                 Discarded(state.unmatched, state.pref_index, state.student_dict,
                           state.schools_dict, n)
                 => Discarded(state'.unmatched, state'.pref_index, state'.student_dict,
                              state'.schools_dict, n)]_vars

\* In the engine and in the session an applicant with a non-empty list has
\* been discarded after trying its preferences, while the queue is not yet
\* empty.
ExhaustedApplicantWitness ==
    /\ pc = "loop"
    /\ run.unmatched # <<>>
    /\ \E n \in DOMAIN run.pref_index :
           /\ Discarded(run.unmatched, run.pref_index, run.student_dict,
                        run.schools_dict, n)
           /\ run.student_dict[n].prefs # <<>>
    /\ anim_open
    /\ state.unmatched # <<>>
    /\ \E n \in DOMAIN state.pref_index :
           /\ Discarded(state.unmatched, state.pref_index, state.student_dict,
                        state.schools_dict, n)
           /\ state.student_dict[n].prefs # <<>>
           /\ \E k \in DOMAIN state.history : state.history[k].student = n

\* The head of the queue has a preference left; the school it reads next.
HeadHasNext(unmatched, pref_index, student_dict) ==
    /\ Head(unmatched) \in DOMAIN student_dict
    /\ pref_index[Head(unmatched)] < Len(student_dict[Head(unmatched)].prefs)

NextSchool(unmatched, pref_index, student_dict) ==
    student_dict[Head(unmatched)].prefs[pref_index[Head(unmatched)] + 1]

HeadReadsUnknown(unmatched, pref_index, student_dict, schools_dict) ==
    /\ HeadHasNext(unmatched, pref_index, student_dict)
    /\ NextSchool(unmatched, pref_index, student_dict) \notin DOMAIN schools_dict

\* The queue and cursors after the head has been requeued with its cursor
\* advanced by one.
RequeuedAdvanced(unmatched, pref_index, unmatched_after, pref_index_after) ==
    /\ unmatched_after = Append(Tail(unmatched), Head(unmatched))
    /\ pref_index_after = [pref_index EXCEPT ![Head(unmatched)] = @ + 1]

\* What an attempt on an unknown school does to the data: requeue at the
\* tail, cursor advanced, admitted lists unchanged, in the engine and in the
\* session.
UnknownSlotFrame ==
    /\ [][(EngineStep /\ HeadReadsUnknown(run.unmatched, run.pref_index,
                                          run.student_dict, run.schools_dict)) =>
             /\ RequeuedAdvanced(run.unmatched, run.pref_index,
                                 run'.unmatched, run'.pref_index)
             /\ run'.schools_dict = run.schools_dict]_vars
    /\ [][(StepExecuted /\ HeadReadsUnknown(state.unmatched, state.pref_index,
                                            state.student_dict, state.schools_dict)) =>
             /\ RequeuedAdvanced(state.unmatched, state.pref_index,
                                 state'.unmatched, state'.pref_index)
             /\ state'.schools_dict = state.schools_dict]_vars

\* C23: unknown slot.  When the school read at the popped applicant's
\* cursor is not a known school, the step emits an unknown-slot record
\* naming the applicant and the school, appends the applicant at the tail of
\* the queue with its cursor advanced by one and leaves every admitted list
\* unchanged.
UnknownSlot ==
    /\ UnknownSlotFrame
    /\ [][(StepExecuted /\ HeadReadsUnknown(state.unmatched, state.pref_index,
                                            state.student_dict, state.schools_dict)) =>
             /\ Len(state'.history) = Len(state.history) + 1
             /\ state'.history[Len(state'.history)].action = "unknown-slot"
             /\ state'.history[Len(state'.history)].student = Head(state.unmatched)
             /\ state'.history[Len(state'.history)].school =
                    NextSchool(state.unmatched, state.pref_index, state.student_dict)]_vars

HeadReadsKnown(unmatched, pref_index, student_dict, schools_dict) ==
    /\ HeadHasNext(unmatched, pref_index, student_dict)
    /\ NextSchool(unmatched, pref_index, student_dict) \in DOMAIN schools_dict

\* The head of the queue applies next to a known school with a free seat.
HeadFindsSeat(unmatched, pref_index, student_dict, schools_dict) ==
    /\ HeadReadsKnown(unmatched, pref_index, student_dict, schools_dict)
    /\ LET school == NextSchool(unmatched, pref_index, student_dict)
       IN  Len(schools_dict[school].accepted) < schools_dict[school].capacity

\* The head is admitted: (name, score) is appended to the school's list,
\* every other list stays, nobody is put back in the queue.
HeadAdmitted(unmatched, pref_index, student_dict, schools_dict,
             unmatched_after, schools_dict_after) ==
    LET school == NextSchool(unmatched, pref_index, student_dict)
        n      == Head(unmatched)
    IN  /\ schools_dict_after =
               [schools_dict EXCEPT ![school].accepted =
                                        Append(@, <<n, student_dict[n].score>>)]
        /\ unmatched_after = Tail(unmatched)

LastRecord(history) == history[Len(history)]

\* C24: admission with free capacity.  When the attempted school exists
\* and holds fewer students than its capacity, the popped applicant is
\* admitted whatever its score: (name, score) is appended to that school's
\* accepted list, nobody is evicted or requeued and every other accepted
\* list is unchanged; the session records the step as accepted.
FreeSeatAdmission ==
    /\ [][(EngineStep /\ HeadFindsSeat(run.unmatched, run.pref_index,
                                       run.student_dict, run.schools_dict)) =>
             HeadAdmitted(run.unmatched, run.pref_index, run.student_dict,
                          run.schools_dict, run'.unmatched, run'.schools_dict)]_vars
    /\ [][(StepExecuted /\ HeadFindsSeat(state.unmatched, state.pref_index,
                                         state.student_dict, state.schools_dict)) =>
             /\ HeadAdmitted(state.unmatched, state.pref_index, state.student_dict,
                             state.schools_dict, state'.unmatched, state'.schools_dict)
             /\ Len(state'.history) = Len(state.history) + 1
             /\ LastRecord(state'.history).action = "accepted"
             /\ LastRecord(state'.history).student = Head(state.unmatched)
             /\ LastRecord(state'.history).rejected = "None"]_vars

\* After two pops the engine and the session each hold a school whose
\* second admitted student scores below the first: it was admitted to the
\* free seat with a score lower than every member's.
FreeSeatAdmissionWitness ==
    /\ pc = "loop"
    /\ pops = 2
    /\ \E s \in DOMAIN run.schools_dict :
           /\ Len(run.schools_dict[s].accepted) = 2
           /\ run.schools_dict[s].accepted[2][2] < run.schools_dict[s].accepted[1][2]
    /\ anim_open
    /\ anim_pops = 2
    /\ \E s \in DOMAIN state.schools_dict :
           /\ Len(state.schools_dict[s].accepted) = 2
           /\ state.schools_dict[s].accepted[2][2] < state.schools_dict[s].accepted[1][2]

MinScore(accepted) ==
    CHOOSE v \in {accepted[k][2] : k \in DOMAIN accepted} :
        \A k \in DOMAIN accepted : v <= accepted[k][2]

\* The list without its k-th element.
WithoutAt(accepted, k) ==
    [i \in 1..(Len(accepted) - 1) |-> IF i < k THEN accepted[i] ELSE accepted[i + 1]]

\* The head of the queue applies next to a known school that is at capacity
\* and holds at least one student.
HeadFindsFull(unmatched, pref_index, student_dict, schools_dict) ==
    /\ HeadReadsKnown(unmatched, pref_index, student_dict, schools_dict)
    /\ LET school == NextSchool(unmatched, pref_index, student_dict)
       IN  /\ Len(schools_dict[school].accepted) >= schools_dict[school].capacity
           /\ schools_dict[school].accepted # <<>>

HeadBeatsMin(unmatched, pref_index, student_dict, schools_dict) ==
    /\ HeadFindsFull(unmatched, pref_index, student_dict, schools_dict)
    /\ student_dict[Head(unmatched)].score >
           MinScore(schools_dict[NextSchool(unmatched, pref_index, student_dict)].accepted)

\* The head replaces the k-th member of the school it applies to: that member
\* goes to the tail of the queue, the head is appended to the list, every
\* other list stays, and only the head's cursor moves.
HeadReplaces(k, unmatched, pref_index, student_dict, schools_dict,
             unmatched_after, pref_index_after, schools_dict_after) ==
    LET school   == NextSchool(unmatched, pref_index, student_dict)
        n        == Head(unmatched)
        accepted == schools_dict[school].accepted
    IN  /\ schools_dict_after =
               [schools_dict EXCEPT ![school].accepted =
                   Append(WithoutAt(accepted, k), <<n, student_dict[n].score>>)]
        /\ Len(schools_dict_after[school].accepted) = Len(accepted)
        /\ unmatched_after = Append(Tail(unmatched), accepted[k][1])
        /\ pref_index_after = [pref_index EXCEPT ![n] = @ + 1]

\* C25: eviction.  When the attempted school is at capacity and the popped
\* applicant's score is strictly greater than the lowest admitted score,
\* exactly one member of lowest score is removed and appended at the tail of
\* the queue with its cursor unchanged, the popped applicant is admitted and
\* the school's admitted count is unchanged; the session records replaced
\* with the evicted name.  Of two applicants who list only a school of
\* capacity 1, the lower scorer first, the school ends with the higher
\* scorer alone and the lower scorer is discarded.
Eviction ==
    /\ [][(EngineStep /\ HeadBeatsMin(run.unmatched, run.pref_index,
                                      run.student_dict, run.schools_dict)) =>
             \E k \in DOMAIN run.schools_dict[NextSchool(run.unmatched, run.pref_index,
                                                         run.student_dict)].accepted :
                 /\ run.schools_dict[NextSchool(run.unmatched, run.pref_index,
                                                run.student_dict)].accepted[k][2]
                        = MinScore(run.schools_dict[NextSchool(run.unmatched,
                                       run.pref_index, run.student_dict)].accepted)
                 /\ HeadReplaces(k, run.unmatched, run.pref_index, run.student_dict,
                                 run.schools_dict, run'.unmatched, run'.pref_index,
                                 run'.schools_dict)]_vars
    /\ [][(StepExecuted /\ HeadBeatsMin(state.unmatched, state.pref_index,
                                        state.student_dict, state.schools_dict)) =>
             \E k \in DOMAIN state.schools_dict[NextSchool(state.unmatched,
                                       state.pref_index, state.student_dict)].accepted :
                 /\ state.schools_dict[NextSchool(state.unmatched, state.pref_index,
                                                  state.student_dict)].accepted[k][2]
                        = MinScore(state.schools_dict[NextSchool(state.unmatched,
                                       state.pref_index, state.student_dict)].accepted)
                 /\ HeadReplaces(k, state.unmatched, state.pref_index,
                                 state.student_dict, state.schools_dict,
                                 state'.unmatched, state'.pref_index,
                                 state'.schools_dict)
                 /\ Len(state'.history) = Len(state.history) + 1
                 /\ LastRecord(state'.history).action = "replaced"
                 /\ LastRecord(state'.history).rejected =
                        state.schools_dict[NextSchool(state.unmatched, state.pref_index,
                                                      state.student_dict)].accepted[k][1]]_vars
    /\ [](\A s \in DOMAIN schools :
             (/\ EngineDone
              /\ Len(students) = 2
              /\ students[1].prefs = <<s>>
              /\ students[2].prefs = <<s>>
              /\ schools[s].capacity = 1
              /\ students[1].score < students[2].score) =>
                 /\ format_results(run.schools_dict)[s] = <<students[2].name>>
                 /\ Discarded(run.unmatched, run.pref_index, run.student_dict,
                              run.schools_dict, students[1].name))

\* The engine has finished on two applicants who list only school X of
\* capacity 1, the lower scorer first: it was admitted, then evicted, and is
\* discarded; the session has just recorded an eviction.
EvictionWitness ==
    /\ EngineDone
    /\ Len(students) = 2
    /\ students[1].prefs = <<"X">>
    /\ students[2].prefs = <<"X">>
    /\ schools["X"].capacity = 1
    /\ students[1].score < students[2].score
    /\ pops = 3
    /\ anim_open
    /\ state.history # <<>>
    /\ LastRecord(state.history).action = "replaced"
    /\ state.unmatched = <<LastRecord(state.history).rejected>>

\* The head of the queue applies next to a school that is at capacity and
\* its score is not above the lowest admitted score.
HeadBelowMin(unmatched, pref_index, student_dict, schools_dict) ==
    /\ HeadFindsFull(unmatched, pref_index, student_dict, schools_dict)
    /\ student_dict[Head(unmatched)].score <=
           MinScore(schools_dict[NextSchool(unmatched, pref_index, student_dict)].accepted)

\* C26: rejection.  When the attempted school is at capacity and the
\* popped applicant's score is less than or equal to the lowest admitted
\* score (a tie does not evict), every admitted list is unchanged and the
\* applicant is appended at the tail of the queue with its cursor advanced;
\* the session records rejected.  Two applicants who both list [X, Y], the
\* higher scorer first, with capacities 1, end with X holding the first and
\* Y the second.
Rejection ==
    /\ [][(EngineStep /\ HeadBelowMin(run.unmatched, run.pref_index,
                                      run.student_dict, run.schools_dict)) =>
             /\ run'.schools_dict = run.schools_dict
             /\ RequeuedAdvanced(run.unmatched, run.pref_index,
                                 run'.unmatched, run'.pref_index)]_vars
    /\ [][(StepExecuted /\ HeadBelowMin(state.unmatched, state.pref_index,
                                        state.student_dict, state.schools_dict)) =>
             /\ state'.schools_dict = state.schools_dict
             /\ RequeuedAdvanced(state.unmatched, state.pref_index,
                                 state'.unmatched, state'.pref_index)
             /\ Len(state'.history) = Len(state.history) + 1
             /\ LastRecord(state'.history).action = "rejected"
             /\ LastRecord(state'.history).student = Head(state.unmatched)
             /\ LastRecord(state'.history).rejected = "None"]_vars
    /\ []((/\ EngineDone
           /\ Len(students) = 2
           /\ students[1].prefs = <<"X", "Y">>
           /\ students[2].prefs = <<"X", "Y">>
           /\ schools["X"].capacity = 1
           /\ schools["Y"].capacity = 1
           /\ students[1].score >= students[2].score) =>
              format_results(run.schools_dict) =
                  [s \in KnownSchools |->
                      IF s = "X" THEN <<students[1].name>> ELSE <<students[2].name>>])

\* The engine has finished on two applicants of equal score who both list
\* [X, Y], with capacities 1: the tie at X rejected the second, who holds Y;
\* the session has just recorded a rejection on a tie.
RejectionWitness ==
    /\ EngineDone
    /\ Len(students) = 2
    /\ students[1].prefs = <<"X", "Y">>
    /\ students[2].prefs = <<"X", "Y">>
    /\ schools["X"].capacity = 1
    /\ schools["Y"].capacity = 1
    /\ students[1].score = students[2].score
    /\ AdmittedNames(run.schools_dict, "Y") = {students[2].name}
    /\ anim_open
    /\ state.history # <<>>
    /\ LastRecord(state.history).action = "rejected"
    /\ state.unmatched = <<students[2].name>>
    /\ state.pref_index[students[2].name] = 1

\* The index of the earliest admitted among the members of lowest score.
EarliestMin(accepted) ==
    CHOOSE k \in DOMAIN accepted :
        /\ accepted[k][2] = MinScore(accepted)
        /\ \A j \in DOMAIN accepted : accepted[j][2] = MinScore(accepted) => k <= j

SeveralShareMin(accepted) ==
    Cardinality({k \in DOMAIN accepted : accepted[k][2] = MinScore(accepted)}) > 1

\* C27: eviction tie-break.  When several members of a full school share
\* the lowest score and the popped applicant's score is strictly greater, the
\* member evicted is the one admitted to the school earliest among them, in
\* the engine and in the session alike.
EvictionTieBreak ==
    /\ [][(/\ EngineStep
           /\ HeadBeatsMin(run.unmatched, run.pref_index,
                           run.student_dict, run.schools_dict)
           /\ SeveralShareMin(run.schools_dict[NextSchool(run.unmatched,
                                   run.pref_index, run.student_dict)].accepted)) =>
             HeadReplaces(EarliestMin(run.schools_dict[NextSchool(run.unmatched,
                                          run.pref_index, run.student_dict)].accepted),
                          run.unmatched, run.pref_index, run.student_dict,
                          run.schools_dict, run'.unmatched, run'.pref_index,
                          run'.schools_dict)]_vars
    /\ [][(/\ StepExecuted
           /\ HeadBeatsMin(state.unmatched, state.pref_index,
                           state.student_dict, state.schools_dict)
           /\ SeveralShareMin(state.schools_dict[NextSchool(state.unmatched,
                                   state.pref_index, state.student_dict)].accepted)) =>
             HeadReplaces(EarliestMin(state.schools_dict[NextSchool(state.unmatched,
                                          state.pref_index, state.student_dict)].accepted),
                          state.unmatched, state.pref_index, state.student_dict,
                          state.schools_dict, state'.unmatched, state'.pref_index,
                          state'.schools_dict)]_vars

\* Three applicants have each been popped once, in the engine and in the
\* session: the first two were admitted with equal scores to a school of
\* capacity 2, the third scored higher and evicted the first admitted.
EvictionTieBreakWitness ==
    /\ Len(students) = 3
    /\ students[1].score = students[2].score
    /\ students[3].score > students[1].score
    /\ pc = "loop"
    /\ pops = 3
    /\ run.unmatched = <<students[1].name>>
    /\ \E s \in DOMAIN run.schools_dict :
           AcceptedNames(run.schools_dict[s].accepted)
               = <<students[2].name, students[3].name>>
    /\ anim_open
    /\ anim_pops = 3
    /\ state.unmatched = <<students[1].name>>
    /\ LastRecord(state.history).action = "replaced"
    /\ LastRecord(state.history).rejected = students[1].name
    /\ \E s \in DOMAIN state.schools_dict :
           AcceptedNames(state.schools_dict[s].accepted)
               = <<students[2].name, students[3].name>>

\* C29: non-wastefulness.  At termination of a run, every known school
\* that an applicant lists before the position of its final match (or
\* anywhere in its list if it ends unmatched) is filled to capacity: nobody
\* is left unmatched or at a less preferred school while a school it prefers
\* has a free seat.
NonWastefulness ==
    EngineDone =>
        \A n \in DOMAIN run.student_dict :
            \A i \in PositionsTried(run, n) :
                LET s == run.student_dict[n].prefs[i]
                IN  s \in DOMAIN run.schools_dict =>
                        /\ IsFull(run.schools_dict, s)
                        /\ run.schools_dict[s].capacity > 0

\* A finished run in which one applicant ends unmatched after trying a known
\* school, another holds its second choice after its known first choice
\* turned it away, and a school still has a free seat.
NonWastefulnessWitness ==
    /\ EngineDone
    /\ \E n \in DOMAIN run.student_dict :
           /\ ~IsAdmitted(run.schools_dict, n)
           /\ \E i \in DOMAIN run.student_dict[n].prefs :
                  run.student_dict[n].prefs[i] \in DOMAIN run.schools_dict
    /\ \E n \in DOMAIN run.student_dict :
           /\ IsAdmitted(run.schools_dict, n)
           /\ run.pref_index[n] = 2
           /\ run.student_dict[n].prefs[1] \in DOMAIN run.schools_dict
           /\ n \notin AdmittedNames(run.schools_dict, run.student_dict[n].prefs[1])
    /\ \E s \in DOMAIN run.schools_dict : ~IsFull(run.schools_dict, s)

\* The number of entries of n over all admitted lists.
RECURSIVE TimesAdmittedIn(_, _, _)
TimesAdmittedIn(S, schools_dict, n) ==
    IF S = {} THEN 0
    ELSE LET s == CHOOSE x \in S : TRUE
         IN  Cardinality({k \in DOMAIN schools_dict[s].accepted :
                              schools_dict[s].accepted[k][1] = n})
             + TimesAdmittedIn(S \ {s}, schools_dict, n)

TimesAdmitted(schools_dict, n) == TimesAdmittedIn(DOMAIN schools_dict, schools_dict, n)

\* Every applicant with an untried preference is queued or admitted.
Accounted(unmatched, pref_index, student_dict, schools_dict) ==
    \A n \in DOMAIN pref_index :
        pref_index[n] < Len(student_dict[n].prefs) =>
            InQueue(unmatched, n) \/ IsAdmitted(schools_dict, n)

\* With the queue empty, every applicant holds exactly one seat or has used
\* up its list (or both, when its seat is at its last preference).
Settled(unmatched, pref_index, student_dict, schools_dict) ==
    unmatched = <<>> =>
        \A n \in DOMAIN pref_index :
            /\ TimesAdmitted(schools_dict, n) <= 1
            /\ \/ TimesAdmitted(schools_dict, n) = 1
               \/ pref_index[n] = Len(student_dict[n].prefs)

\* C30: final-state characterisation.  In the engine and in the session,
\* when the queue is empty every applicant is in exactly one school's
\* accepted list or has its cursor at the length of its preference list
\* (both when it was admitted on its last preference), and at every point
\* of the run every applicant with untried preferences is in the queue or
\* in an accepted list.
FinalState ==
    /\ Accounted(run.unmatched, run.pref_index, run.student_dict, run.schools_dict)
    /\ Settled(run.unmatched, run.pref_index, run.student_dict, run.schools_dict)
    /\ Accounted(state.unmatched, state.pref_index, state.student_dict,
                 state.schools_dict)
    /\ Settled(state.unmatched, state.pref_index, state.student_dict,
               state.schools_dict)

\* The engine and the session have both emptied their queues leaving one
\* applicant admitted with preferences untried and one unmatched after
\* trying a known school.
FinalStateWitness ==
    /\ EngineDone
    /\ pops > 0
    /\ anim_open
    /\ anim_pops > 0
    /\ state.unmatched = <<>>
    /\ state.schools_dict = run.schools_dict
    /\ \E n \in DOMAIN state.pref_index :
           /\ ~IsAdmitted(state.schools_dict, n)
           /\ \E k \in DOMAIN state.history : state.history[k].student = n
    /\ \E n \in DOMAIN state.pref_index :
           /\ IsAdmitted(state.schools_dict, n)
           /\ state.pref_index[n] < Len(state.student_dict[n].prefs)

\* What one step may do to the admitted lists: no list gets shorter, a list
\* that was at capacity stays at capacity, and the lowest score of a list at
\* capacity does not go down.
SlotsMonotone(schools_dict, schools_dict_after) ==
    /\ DOMAIN schools_dict_after = DOMAIN schools_dict
    /\ \A s \in DOMAIN schools_dict :
           /\ Len(schools_dict_after[s].accepted) >= Len(schools_dict[s].accepted)
           /\ IsFull(schools_dict, s) =>
                  /\ IsFull(schools_dict_after, s)
                  /\ MinScore(schools_dict_after[s].accepted)
                         >= MinScore(schools_dict[s].accepted)

\* C31: slot monotonicity.  Over a run of the engine and over the steps of
\* a session, no school's admitted count ever decreases (a school that has
\* become full stays full), and once a school is full the minimum score
\* among its admitted students never decreases from one step to the next.
SlotMonotonicity ==
    /\ [][EngineStep => SlotsMonotone(run.schools_dict, run'.schools_dict)]_vars
    /\ [][StepExecuted => SlotsMonotone(state.schools_dict, state'.schools_dict)]_vars

\* The session has just replaced the lowest scorer of a full school of
\* capacity MaxCapacity, which raised the school's minimum to MaxScore; the
\* engine is in its loop past an eviction, with a full school.
SlotMonotonicityWitness ==
    /\ anim_open
    /\ state.history # <<>>
    /\ LastRecord(state.history).action = "replaced"
    /\ LET s == LastRecord(state.history).school
       IN  /\ state.schools_dict[s].capacity = MaxCapacity
           /\ IsFull(state.schools_dict, s)
           /\ MinScore(state.schools_dict[s].accepted) = MaxScore
           /\ state.student_dict[LastRecord(state.history).rejected].score < MaxScore
    /\ pc = "loop"
    /\ \E s \in DOMAIN run.schools_dict :
           /\ IsFull(run.schools_dict, s)
           /\ \E n \in DOMAIN run.pref_index :
                  /\ run.pref_index[n] > 0
                  /\ run.student_dict[n].prefs[run.pref_index[n]] = s
                  /\ n \notin AdmittedNames(run.schools_dict, s)
                  /\ run.student_dict[n].score < MinScore(run.schools_dict[s].accepted)

\* The students in another order of entry.
Reordered(studs, p) == [i \in DOMAIN studs |-> studs[p[i]]]

DistinctScores(studs) ==
    \A i, j \in DOMAIN studs : i # j => studs[i].score # studs[j].score

\* The positions of studs by descending score.
ByScoreDesc(studs) ==
    [k \in DOMAIN studs |->
        CHOOSE i \in DOMAIN studs :
            Cardinality({j \in DOMAIN studs :
                studs[j].score > studs[i].score
                    \/ (studs[j].score = studs[i].score /\ j < i)}) + 1 = k]

\* The first school of prefs that is known and has a free seat in alloc, or
\* "None".
FirstFree(prefs, schs, alloc) ==
    LET open == {k \in DOMAIN prefs :
                    /\ prefs[k] \in DOMAIN schs
                    /\ Len(alloc[prefs[k]]) < schs[prefs[k]].capacity}
    IN  IF open = {} THEN "None"
        ELSE prefs[CHOOSE k \in open : \A l \in open : k <= l]

\* Serial dictatorship: the students of order[k..] choose in turn.
RECURSIVE SerialFrom(_, _, _, _, _)
SerialFrom(studs, schs, order, k, alloc) ==
    IF k > Len(order) THEN alloc
    ELSE LET student == studs[order[k]]
             school  == FirstFree(student.prefs, schs, alloc)
         IN  SerialFrom(studs, schs, order, k + 1,
                 IF school = "None" THEN alloc
                 ELSE [alloc EXCEPT ![school] = Append(@, student.name)])

SerialDictatorship(studs, schs) ==
    SerialFrom(studs, schs, ByScoreDesc(studs), 1, [s \in DOMAIN schs |-> <<>>])

\* C32: order independence with distinct scores.  When the scores of the
\* students are pairwise distinct, the dict returned by
\* gale_shapley_matching is the same for every order of the students list,
\* and it is the serial-dictatorship allocation: the students, by descending
\* score, each get the first school of their list that exists and still has
\* a free seat.
OrderIndependence ==
    (matches # NoMatches /\ DistinctScores(students)) =>
        /\ matches = SerialDictatorship(students, schools)
        /\ \A p \in Permutations(DOMAIN students) :
               gale_shapley_matching(Reordered(students, p), schools) = matches

\* A returned allocation on distinct scores in which the student entered
\* last scores highest, was given its first choice at the expense of the
\* student entered first, who ended at its second choice.
OrderIndependenceWitness ==
    /\ matches # NoMatches
    /\ DistinctScores(students)
    /\ students[3].score = OrderMaxScore
    /\ students[1].prefs = <<"X", "Y">>
    /\ students[3].prefs = <<"X", "Y">>
    /\ schools["X"].capacity = 1
    /\ matches["X"] = <<students[3].name>>
    /\ students[1].name \in {matches["Y"][k] : k \in DOMAIN matches["Y"]}

\* Scores that a rescoring of the students may use.
RescoreMax == 4

\* The students with the scores sc, names and preferences as they are.
Rescored(studs, sc) ==
    [i \in DOMAIN studs |->
        [name |-> studs[i].name, prefs |-> studs[i].prefs, score |-> sc[i]]]

\* Two lists of the same students compare every pair of scores alike.
SameComparisons(studs, other) ==
    /\ DOMAIN other = DOMAIN studs
    /\ \A i, j \in DOMAIN studs :
           /\ (studs[i].score < studs[j].score) <=> (other[i].score < other[j].score)
           /\ (studs[i].score = studs[j].score) <=> (other[i].score = other[j].score)

\* C33: invariance under order-preserving rescoring.  If two inputs differ
\* only in scores and compare every pair of students alike, the engine
\* returns the same dict for both and _count_matching_changes between the
\* two is 0; so a rerun on adjusted scores differs from the baseline only
\* if the adjustment changed the order of two scores or made or broke a tie.
RescoringInvariance ==
    matches # NoMatches =>
        /\ \A sc \in [DOMAIN students -> 1..RescoreMax] :
               SameComparisons(students, Rescored(students, sc)) =>
                   LET other == gale_shapley_matching(Rescored(students, sc), schools)
                   IN  /\ other = matches
                       /\ count_matching_changes(matches, other) = 0
        /\ \A f \in Factors :
               LET call == run_adjusted_matching_call(students, schools, f)
               IN  count_matching_changes(matches, call.adjusted_matches) > 0 =>
                       ~SameComparisons(students, adjusted_students_of(students, f))

\* A returned allocation on three students competing for one seat, two of
\* them tied below the third: the factor 1.5 spreads the scores without
\* changing a comparison, the factor 0.5 makes a tie of the two higher
\* scores and changes the allocation.
RescoringInvarianceWitness ==
    /\ matches # NoMatches
    /\ schools["X"].capacity = 1
    /\ \A i \in DOMAIN students : students[i].prefs = <<"X">>
    /\ students[1].score = 2
    /\ students[2].score = 3
    /\ students[3].score = 1
    /\ adjusted_students_of(students, 3) # students
    /\ SameComparisons(students, adjusted_students_of(students, 3))
    /\ ~SameComparisons(students, adjusted_students_of(students, 1))
    /\ count_matching_changes(matches,
           run_adjusted_matching_call(students, schools, 1).adjusted_matches) > 0

\* C34: single tick chain.  After any sequence of Start, Step and Reset
\* presses interleaved with timer firings, at most one canvas.after
\* callback of _animation_run_step is pending for the session.
SingleTickChain == ticks <= 1

\* The session is over: empty queue, not running, no tick pending.
AnimationOver == anim_open /\ state.unmatched = <<>> /\ ~state.running /\ ticks = 0

\* A button of the animation window is pressed.
ButtonPress == animation_reset \/ animation_start \/ animation_step

AdmittedAtLast(student_dict, pref_index, schools_dict) ==
    \A s \in DOMAIN schools_dict :
        \A k \in DOMAIN schools_dict[s].accepted :
            LET n == schools_dict[s].accepted[k][1]
            IN  /\ n \in DOMAIN student_dict
                /\ pref_index[n] >= 1
                /\ pref_index[n] <= Len(student_dict[n].prefs)
                /\ student_dict[n].prefs[pref_index[n]] = s
                /\ schools_dict[s].accepted[k][2] = student_dict[n].score

\* C36: admitted at last attempt.  In every state between steps, of the
\* engine and of the session, a student in a school's accepted list has a
\* cursor of at least 1, the school is the entry of its preference list
\* just before the cursor, and the score stored with it is its own score.
AdmittedAtLastAttempt ==
    /\ AdmittedAtLast(run.student_dict, run.pref_index, run.schools_dict)
    /\ AdmittedAtLast(state.student_dict, state.pref_index, state.schools_dict)

\* The engine holds a student at the second school of its list while
\* another waits in the queue; the session holds a student admitted by an
\* eviction and one admitted at its second attempt.
AdmittedAtLastAttemptWitness ==
    /\ pc = "loop"
    /\ run.unmatched # <<>>
    /\ \E s \in DOMAIN run.schools_dict :
           \E k \in DOMAIN run.schools_dict[s].accepted :
               run.pref_index[run.schools_dict[s].accepted[k][1]] = 2
    /\ anim_open
    /\ \E k \in DOMAIN state.history : state.history[k].action = "replaced"
    /\ \E s \in DOMAIN state.schools_dict :
           \E k \in DOMAIN state.schools_dict[s].accepted :
               state.pref_index[state.schools_dict[s].accepted[k][1]] = 2

RECURSIVE SumCursors(_, _)
SumCursors(S, pref_index) ==
    IF S = {} THEN 0
    ELSE LET n == CHOOSE x \in S : TRUE
         IN  pref_index[n] + SumCursors(S \ {n}, pref_index)

\* The attempts made so far that named a school of schools_dict.
RECURSIVE KnownAttempts(_, _, _, _)
KnownAttempts(S, pref_index, student_dict, schools_dict) ==
    IF S = {} THEN 0
    ELSE LET n == CHOOSE x \in S : TRUE
         IN  Cardinality({k \in 1..pref_index[n] :
                             student_dict[n].prefs[k] \in DOMAIN schools_dict})
             + KnownAttempts(S \ {n}, pref_index, student_dict, schools_dict)

\* C38: session counters.  In every session state between steps, the step
\* counter equals the sum of the students' cursors (the attempts made since
\* the last reset), the history is as long as the number of those attempts
\* that named a known school, and every record of the history has an
\* action other than None.
SessionCounters ==
    /\ state.step = SumCursors(DOMAIN state.pref_index, state.pref_index)
    /\ Len(state.history) =
           KnownAttempts(DOMAIN state.pref_index, state.pref_index,
                         state.student_dict, state.schools_dict)
    /\ \A k \in DOMAIN state.history :
           state.history[k].action \in {"accepted", "replaced", "rejected"}

\* A session stepped by hand while a tick is pending: an attempt at an
\* unknown school has left the history shorter than the step counter, and a
\* pop of a student with no preference left has counted as no step.
SessionCountersWitness ==
    /\ anim_open
    /\ last_press = "step"
    /\ state.step >= 2
    /\ state.history # <<>>
    /\ Len(state.history) < state.step
    /\ anim_pops > state.step
    /\ ticks > 0

\* The part of the round bookkeeping that the wrap of step_simulation
\* leaves intact: the round counter stays within 0..rounds, every record
\* sums to the number of nodes, and the history holds at least one record
\* per round played plus the initial one.
RoundBookkeepingFrame ==
    net.pc = "idle" =>
        /\ net.current_round >= 0
        /\ net.current_round <= net.rounds
        /\ Len(net.strategy_history) >= net.current_round + 1
        /\ \A k \in DOMAIN net.strategy_history :
               net.strategy_history[k].rock + net.strategy_history[k].scissors
                   + net.strategy_history[k].paper = net.size

\* C37: round bookkeeping of the network simulation.  After any sequence
\* of run_simulation and step_simulation calls, current_round is between 0
\* and rounds, strategy_history holds exactly current_round + 1 records,
\* and the three counts of each record sum to the number of nodes.
RoundBookkeeping ==
    net.pc = "idle" =>
        /\ net.current_round >= 0
        /\ net.current_round <= net.rounds
        /\ Len(net.strategy_history) = net.current_round + 1
        /\ \A k \in DOMAIN net.strategy_history :
               net.strategy_history[k].rock + net.strategy_history[k].scissors
                   + net.strategy_history[k].paper = net.size

====
